---- MODULE Spec2Model ----
(***************************************************************************)
(* The task tracker of LegalIntel: the server action createTask            *)
(* (src/app/actions.ts), its two handlers processClassifyDocumentTask and  *)
(* processAskQuestionTask, and the client hook useTask (hooks/use-task).   *)
(*                                                                         *)
(* Every await of the code is a point where other requests interleave, so  *)
(* each handler is cut into one action per await outcome.  A Firestore     *)
(* write is atomic: it is applied and its promise resolves, or it is not   *)
(* applied and its promise rejects.                                        *)
(***************************************************************************)
EXTENDS Integers, Sequences, FiniteSets, Bags, TLC

\* ------------------------------------------------------------------ bounds
\* Number of createTask invocations explored.
MaxCalls == 2

\* ------------------------------------------------------------------ values
\* An optional value: <<>> is undefined/absent, <<v>> is v.
Unset == <<>>
Some(v) == <<v>>
IsSet(o) == o # <<>>
Val(o) == o[1]

\* Firebase uids; "" is the empty userId a caller may pass.
Owners == {"u1", "u2"}
UserIds == Owners \cup {""}

\* taskData.type as it arrives: the two known handler names, an unknown name,
\* and the empty string.
KnownTypes == {"classifyDocument", "askQuestion"}
Types == KnownTypes \cup {"boom", ""}

\* taskData.payload: absent, or an opaque payload.
Payloads == {Unset, Some("x")}

\* taskData itself: null, or {type, payload}.
TaskDatas == {Unset} \cup {Some([type |-> t, payload |-> p]) : t \in Types, p \in Payloads}

\* Messages of errors thrown by the storage layer and by the AI flows.
StorageMsgs == {"unavailable"}
FlowMsgs == {"disk full"}

\* Document ids of one tasks collection: add() picks an id unused in it.
TaskIds == 1..MaxCalls

Terminal == {"completed", "failed"}

\* ------------------------------------------------------------------ state
VARIABLES
    tasks,      \* Firestore: path <<owner, id>> -> task document
    hist,       \* Firestore: bag of documents of the users/{uid}/history collections
    calls,      \* the createTask invocations so far, in order of arrival
    handlers,   \* handlers[c]: the handler invocation started by call c
    obs,        \* obs[o]: one useTask instance
    chat,       \* the state of a ChatInterface component
    page,       \* the state of a DocumentVerifierPage component
    auth,       \* Firebase Auth: the uids of the accounts
    users,      \* Firestore: uid -> profile document of the users collection
    lawyerRecords, \* Firestore: id -> document of the lawyers collection
    signups,    \* the SignupPage.onSubmit invocations so far
    updates,    \* the updateUserInFirestore invocations so far
    admin       \* the addLawyer and deleteLawyer invocations so far

vars == <<tasks, hist, calls, handlers, obs, chat, page,
          auth, users, lawyerRecords, signups, updates, admin>>

\* The accounts, their profiles and the lawyers collection, with the
\* invocations that write them.
accounts == <<auth, users, lawyerRecords, signups, updates, admin>>

\* The state of the components and the accounts, which the task server and
\* the hook leave alone.
others == <<chat, page, accounts>>

\* The tasks, their observers and the components, which the account
\* operations leave alone.
taskState == <<tasks, hist, calls, handlers, obs, chat, page>>

\* ------------------------------------------------------------------ storage
\* db.collection('users').doc(userId).collection('tasks').doc(taskId)
TaskRef(userId, taskId) == <<userId, taskId>>

\* Variant: every record is written under one fixed id.
FixedId(store, userId) == 1

\* The id add() gives a new document of users/{userId}/tasks: one not in use
\* in that collection (the lowest such, to keep the model deterministic here).
NewId(store, userId) ==
    CHOOSE i \in TaskIds :
        /\ TaskRef(userId, i) \notin DOMAIN store
        /\ \A j \in TaskIds : j < i => TaskRef(userId, j) \in DOMAIN store

\* The fields createTask writes: {...taskData, status: 'pending', createdAt}.
\* call, writer and log are history fields: the creating call, the userId
\* argument of the last write, and the statuses written so far.
NewTaskDoc(userId, taskData, c) ==
    [type    |-> taskData.type,
     payload |-> taskData.payload,
     status  |-> "pending",
     result  |-> Unset,
     error   |-> Unset,
     call    |-> c,
     writer  |-> userId,
     log     |-> <<"pending">>]

\* collection('users').doc(userId).collection('tasks').add(doc)
AddTask(store, userId, doc) ==
    (TaskRef(userId, NewId(store, userId)) :> doc) @@ store

\* DocumentReference.update(data): only the fields of data change.
Merge(doc, data) ==
    [f \in DOMAIN doc |-> IF f \in DOMAIN data THEN data[f] ELSE doc[f]]

\* update() rejects with NOT_FOUND when the document does not exist.
CanUpdate(store, userId, taskId) == TaskRef(userId, taskId) \in DOMAIN store

\* Variant: the update goes to the first task of the owner.
updateTaskFirst(store, userId, taskId, data) ==
    [store EXCEPT ![TaskRef(userId, 1)] =
        [Merge(@, data) EXCEPT !.writer = userId,
                               !.log = Append(@, data.status)]]

updateTask(store, userId, taskId, data) ==
    [store EXCEPT ![TaskRef(userId, taskId)] =
        [Merge(@, data) EXCEPT !.writer = userId,
                               !.log = Append(@, data.status)]]

\* ------------------------------------------------------------------ createTask
\* Variant: the guard looks at taskData only.
createTaskRejectsTaskDataOnly(userId, taskData) == ~IsSet(taskData)

\* The guard of createTask: !userId || !taskData.
createTaskRejects(userId, taskData) == userId = "" \/ ~IsSet(taskData)

\* The handler createTask starts for a type: none for any other type.
Dispatch(type) ==
    IF type = "classifyDocument" THEN "classifyDocument"
    ELSE IF type = "askQuestion" THEN "askQuestion"
    ELSE "none"

\* What a createTask call has returned: nothing yet, {taskId} or {error}.
NoRet == [tag |-> "none", taskId |-> 0, error |-> ""]
RetTaskId(id) == [tag |-> "taskId", taskId |-> id, error |-> ""]
RetError(msg) == [tag |-> "error", taskId |-> 0, error |-> msg]

\* A handler invocation: where it is (pc), its arguments, and its locals
\* result, finalResult (final) and the caught e.message (err).  flow and
\* flowMsg are history fields: how the AI flow ended.
IdleHandler ==
    [pc |-> "none", kind |-> "none", userId |-> "", taskId |-> 0, payload |-> Unset,
     flow |-> "none", flowMsg |-> "", result |-> Unset, final |-> Unset, err |-> Unset]

\* Variant: every handler invocation is given the id of the owner's first task.
StartedHandlerFirstTask(kind, userId, taskId, payload) ==
    [IdleHandler EXCEPT !.pc = "updProcessing", !.kind = kind, !.userId = userId,
                        !.taskId = 1, !.payload = payload]

\* The handler invocation as it stands when createTask goes on to its return:
\* it has run to its first await, the update to 'processing'.
StartedHandler(kind, userId, taskId, payload) ==
    [IdleHandler EXCEPT !.pc = "updProcessing", !.kind = kind, !.userId = userId,
                        !.taskId = taskId, !.payload = payload]

\* createTask(userId, taskData) is called: the guard, then the add() is awaited.
createTask(userId, taskData) ==
    /\ Len(calls) < MaxCalls
    /\ IF createTaskRejects(userId, taskData)
       THEN calls' = Append(calls, [userId |-> userId, taskData |-> taskData, pc |-> "returned",
                        add |-> "none", ret |-> RetError("User ID and task data are required.")])
       ELSE calls' = Append(calls, [userId |-> userId, taskData |-> taskData, pc |-> "adding",
                        add |-> "none", ret |-> NoRet])
    /\ handlers' = Append(handlers, IdleHandler)
    /\ UNCHANGED <<tasks, hist, obs, others>>

\* Variant: the handler is awaited before the return.
createTaskAddedAwaits(c) ==
    /\ c \in 1..Len(calls)
    /\ \/ /\ calls[c].pc = "adding"
          /\ LET userId == calls[c].userId
                 taskData == Val(calls[c].taskData)
                 id == NewId(tasks, userId)
                 kind == Dispatch(taskData.type)
             IN /\ tasks' = AddTask(tasks, userId, NewTaskDoc(userId, taskData, c))
                /\ handlers' = [handlers EXCEPT ![c] =
                      IF kind = "none" THEN @
                      ELSE StartedHandler(kind, userId, id, taskData.payload)]
                /\ calls' = [calls EXCEPT ![c].pc = IF kind = "none" THEN "returned" ELSE "awaiting",
                                          ![c].add = "ok",
                                          ![c].ret = IF kind = "none" THEN RetTaskId(id) ELSE @]
       \/ /\ calls[c].pc = "awaiting"
          /\ handlers[c].pc \in {"done", "rejected"}
          /\ calls' = [calls EXCEPT ![c].pc = "returned",
                                    ![c].ret = RetTaskId(handlers[c].taskId)]
          /\ UNCHANGED <<tasks, handlers, others>>
    /\ UNCHANGED <<hist, obs, others>>

\* add() resolved: the pending record exists, the handler of the type is
\* called without await (it runs to its first await), {taskId} is returned.
createTaskAdded(c) ==
    /\ c \in 1..Len(calls)
    /\ calls[c].pc = "adding"
    /\ LET userId == calls[c].userId
           taskData == Val(calls[c].taskData)
           id == NewId(tasks, userId)
           kind == Dispatch(taskData.type)
       IN /\ tasks' = AddTask(tasks, userId, NewTaskDoc(userId, taskData, c))
          /\ handlers' = [handlers EXCEPT ![c] =
                IF kind = "none" THEN @
                ELSE StartedHandler(kind, userId, id, taskData.payload)]
          /\ calls' = [calls EXCEPT ![c].pc = "returned", ![c].add = "ok",
                                    ![c].ret = RetTaskId(id)]
    /\ UNCHANGED <<hist, obs, others>>

\* Variant: the handler is started although the add() was rejected.
createTaskAddFailedStartsHandler(c, msg) ==
    /\ c \in 1..Len(calls)
    /\ calls[c].pc = "adding"
    /\ calls' = [calls EXCEPT ![c].pc = "returned", ![c].add = "failed",
                    ![c].ret = RetError("Failed to create the task. " \o msg)]
    /\ handlers' = [handlers EXCEPT ![c] =
            IF Dispatch(Val(calls[c].taskData).type) = "none" THEN @
            ELSE StartedHandler(Dispatch(Val(calls[c].taskData).type), calls[c].userId, 0,
                                Val(calls[c].taskData).payload)]
    /\ UNCHANGED <<tasks, hist, obs, others>>

\* add() rejected: the catch returns {error}.
createTaskAddFailed(c, msg) ==
    /\ c \in 1..Len(calls)
    /\ calls[c].pc = "adding"
    /\ calls' = [calls EXCEPT ![c].pc = "returned", ![c].add = "failed",
                    ![c].ret = RetError("Failed to create the task. " \o msg)]
    /\ UNCHANGED <<tasks, hist, handlers, obs, others>>

\* ------------------------------------------------------------------ handlers
\* What an AI flow (askDocumentQuestion, classifyDocument) hands back: an
\* output, an explicit failure value {error: msg}, or an exception.
FlowOk(v) == [tag |-> "ok", value |-> v, msg |-> ""]
FlowError(m) == [tag |-> "error", value |-> Unset, msg |-> m]
FlowThrow(m) == [tag |-> "throw", value |-> Unset, msg |-> m]

\* Outputs of askDocumentQuestion.
AskOutputs == {[plainEnglish |-> "a1"]}
AskOutcomes ==
    {FlowOk(v) : v \in AskOutputs}
        \cup {FlowError(m) : m \in FlowMsgs} \cup {FlowThrow(m) : m \in FlowMsgs}

\* Outputs of classifyDocument, as far as the handler reads them.
ClassifyOutputs ==
    {[lawyerCategory |-> "", expenditureAnalysis |-> [estimatedHearings |-> 0]],
     [lawyerCategory |-> "Contract Law", expenditureAnalysis |-> [estimatedHearings |-> 2]],
     [lawyerCategory |-> "Contract Law", expenditureAnalysis |-> [estimatedHearings |-> 0]]}
ClassifyOutcomes ==
    {FlowOk(v) : v \in ClassifyOutputs}
        \cup {FlowError(m) : m \in FlowMsgs} \cup {FlowThrow(m) : m \in FlowMsgs}

\* The lawyers collection, read by the classify handler.
LawyerDocs ==
    {[id |-> 1, specialty |-> "Contract Law", costPerHearing |-> 100],
     [id |-> 2, specialty |-> "Contract Law", costPerHearing |-> 0],
     [id |-> 3, specialty |-> "Family Law", costPerHearing |-> 50]}

\* .limit(3)
QueryLimit == 3

\* collection('lawyers').where('specialty', '==', category).limit(3).get()
LawyersQuery(category) ==
    LET match == {d \in LawyerDocs : d.specialty = category}
    IN {d \in match : Cardinality({e \in match : e.id < d.id}) < QueryLimit}

SetMin(S) == CHOOSE x \in S : \A y \in S : x <= y
SetMax(S) == CHOOSE x \in S : \A y \in S : x >= y

\* estimatedCostRange: <<>> stands for 'N/A', <<[min, max]>> for the text
\* built from minCost and maxCost.
EstimatedCostRange(result, lawyers) ==
    LET hearings == result.expenditureAnalysis.estimatedHearings
        costs == {c \in {l.costPerHearing * hearings : l \in lawyers} : c > 0}
    IN IF lawyers # {} /\ hearings > 0 /\ costs # {}
       THEN Some([min |-> SetMin(costs), max |-> SetMax(costs)])
       ELSE Unset

\* finalResult of processClassifyDocumentTask.
FinalResult(result, lawyers) ==
    [lawyerCategory |-> result.lawyerCategory,
     recommendedLawyers |-> lawyers,
     expenditureAnalysis |->
        [estimatedHearings |-> result.expenditureAnalysis.estimatedHearings,
         estimatedCostRange |-> EstimatedCostRange(result, lawyers)]]

\* The data of the three updates a handler makes.

\* Variant: the handler's first update writes pending again.
ProcessingDataPending == [status |-> "pending"]

ProcessingData == [status |-> "processing"]

\* Variant: the result is left out of the update to 'completed'.
CompletedDataNoResult(result) == [status |-> "completed"]

CompletedData(result) == [status |-> "completed", result |-> Some(result)]
\* Variant: the message is written to the field result.
FailedDataInResult(message) == [status |-> "failed", result |-> Some(message)]

FailedData(message) == [status |-> "failed", error |-> Some(message)]

AtPc(c, kind, pc) ==
    /\ c \in 1..Len(handlers)
    /\ handlers[c].kind = kind
    /\ handlers[c].pc = pc

\* Variant: the catch stores a fixed text, not e.message.
CatchGeneric(h, message) == [h EXCEPT !.pc = "updFailed", !.err = Some("error")]

\* catch (e) { await updateTask(userId, taskId, {status: 'failed', error: e.message}) }
\* up to the await: the message is kept, the update is issued.
Catch(h, message) == [h EXCEPT !.pc = "updFailed", !.err = Some(message)]

\* An awaited updateTask of handler c resolves: the record is updated and
\* the handler goes on in the state next.
UpdateResolves(c, data, next) ==
    /\ CanUpdate(tasks, handlers[c].userId, handlers[c].taskId)
    /\ tasks' = updateTask(tasks, handlers[c].userId, handlers[c].taskId, data)
    /\ handlers' = [handlers EXCEPT ![c] = next]
    /\ UNCHANGED <<hist, calls, obs, others>>

\* Variant: the rejection ends the handler, no catch block runs.
RejectsUncaught(c, msg) ==
    /\ handlers' = [handlers EXCEPT ![c].pc = "rejected", ![c].err = Some(msg)]
    /\ UNCHANGED <<tasks, hist, calls, obs, others>>

\* An awaited call inside the try block rejects: control is in the catch.
Rejects(c, msg) ==
    /\ handlers' = [handlers EXCEPT ![c] = Catch(@, msg)]
    /\ UNCHANGED <<tasks, hist, calls, obs, others>>

\* The flow's value is looked at: 'error' in result throws Error(result.error).
AfterFlow(h, outcome, next) ==
    IF outcome.tag = "ok"
    THEN [next EXCEPT !.flow = "ok", !.result = Some(outcome.value)]
    ELSE [Catch(h, outcome.msg) EXCEPT !.flow = outcome.tag, !.flowMsg = outcome.msg]

\* -------- processAskQuestionTask
askProcessingWritten(c) ==
    /\ AtPc(c, "askQuestion", "updProcessing")
    /\ UpdateResolves(c, ProcessingData, [handlers[c] EXCEPT !.pc = "flow"])

askProcessingFailed(c, msg) ==
    /\ AtPc(c, "askQuestion", "updProcessing")
    /\ Rejects(c, msg)

\* askDocumentQuestion(payload) settles; on success the update to
\* 'completed' is issued with the flow's output as result.
askFlowReturned(c, outcome) ==
    /\ AtPc(c, "askQuestion", "flow")
    /\ handlers' = [handlers EXCEPT ![c] =
            AfterFlow(@, outcome, [@ EXCEPT !.pc = "updCompleted",
                                            !.final = Some(outcome.value)])]
    /\ UNCHANGED <<tasks, hist, calls, obs, others>>

askCompletedWritten(c) ==
    /\ AtPc(c, "askQuestion", "updCompleted")
    /\ UpdateResolves(c, CompletedData(Val(handlers[c].final)),
                      [handlers[c] EXCEPT !.pc = "done"])

\* Variant: the update to 'completed' is applied and the handler throws after it.
askCompletedFailedApplied(c, msg) ==
    /\ AtPc(c, "askQuestion", "updCompleted")
    /\ CanUpdate(tasks, handlers[c].userId, handlers[c].taskId)
    /\ tasks' = updateTask(tasks, handlers[c].userId, handlers[c].taskId,
                           [status |-> "completed", result |-> handlers[c].final])
    /\ handlers' = [handlers EXCEPT ![c] = Catch(@, msg)]
    /\ UNCHANGED <<hist, calls, obs, others>>

askCompletedFailed(c, msg) ==
    /\ AtPc(c, "askQuestion", "updCompleted")
    /\ Rejects(c, msg)

\* Variant: after the update to 'failed' the handler starts over.
askFailedWrittenRetries(c) ==
    /\ AtPc(c, "askQuestion", "updFailed")
    /\ Len(tasks[TaskRef(handlers[c].userId, handlers[c].taskId)].log) < 4
    /\ UpdateResolves(c, FailedData(Val(handlers[c].err)),
                      [handlers[c] EXCEPT !.pc = "updProcessing", !.err = Unset])

askFailedWritten(c) ==
    /\ AtPc(c, "askQuestion", "updFailed")
    /\ UpdateResolves(c, FailedData(Val(handlers[c].err)),
                      [handlers[c] EXCEPT !.pc = "done"])

\* The update in the catch block rejects: nothing catches it, the handler's
\* promise rejects and nobody awaits it.
askFailedRejected(c) ==
    /\ AtPc(c, "askQuestion", "updFailed")
    /\ handlers' = [handlers EXCEPT ![c].pc = "rejected"]
    /\ UNCHANGED <<tasks, hist, calls, obs, others>>

\* -------- processClassifyDocumentTask
classifyProcessingWritten(c) ==
    /\ AtPc(c, "classifyDocument", "updProcessing")
    /\ UpdateResolves(c, ProcessingData, [handlers[c] EXCEPT !.pc = "flow"])

classifyProcessingFailed(c, msg) ==
    /\ AtPc(c, "classifyDocument", "updProcessing")
    /\ Rejects(c, msg)

\* classifyDocument(payload) settles.  With a lawyerCategory the lawyers
\* query is awaited next; without one finalResult is built and the history
\* add is awaited.
classifyFlowReturned(c, outcome) ==
    /\ AtPc(c, "classifyDocument", "flow")
    /\ handlers' = [handlers EXCEPT ![c] =
            AfterFlow(@, outcome,
                IF outcome.value.lawyerCategory # ""
                THEN [@ EXCEPT !.pc = "lawyersQuery"]
                ELSE [@ EXCEPT !.pc = "historyAdd",
                               !.final = Some(FinalResult(outcome.value, {}))])]
    /\ UNCHANGED <<tasks, hist, calls, obs, others>>

classifyLawyersFound(c) ==
    /\ AtPc(c, "classifyDocument", "lawyersQuery")
    /\ LET result == Val(handlers[c].result)
           lawyers == LawyersQuery(result.lawyerCategory)
       IN handlers' = [handlers EXCEPT ![c].pc = "historyAdd",
                                       ![c].final = Some(FinalResult(result, lawyers))]
    /\ UNCHANGED <<tasks, hist, calls, obs, others>>

classifyLawyersFailed(c, msg) ==
    /\ AtPc(c, "classifyDocument", "lawyersQuery")
    /\ Rejects(c, msg)

\* The document added to users/{userId}/history (task is a history field).
HistoryDoc(h, c) ==
    [owner |-> h.userId, task |-> c, result |-> Val(h.final), file |-> h.payload]

classifyHistoryAdded(c) ==
    /\ AtPc(c, "classifyDocument", "historyAdd")
    /\ hist' = hist (+) SetToBag({HistoryDoc(handlers[c], c)})
    /\ handlers' = [handlers EXCEPT ![c].pc = "updCompleted"]
    /\ UNCHANGED <<tasks, calls, obs, others>>

\* Variant: a failed history write is thrown on to the outer catch.
classifyHistoryFailedThrows(c) ==
    /\ AtPc(c, "classifyDocument", "historyAdd")
    /\ \E msg \in StorageMsgs : Rejects(c, msg)

\* The inner catch swallows a failed history write.
classifyHistoryFailed(c) ==
    /\ AtPc(c, "classifyDocument", "historyAdd")
    /\ handlers' = [handlers EXCEPT ![c].pc = "updCompleted"]
    /\ UNCHANGED <<tasks, hist, calls, obs, others>>

classifyCompletedWritten(c) ==
    /\ AtPc(c, "classifyDocument", "updCompleted")
    /\ UpdateResolves(c, CompletedData(Val(handlers[c].final)),
                      [handlers[c] EXCEPT !.pc = "done"])

classifyCompletedFailed(c, msg) ==
    /\ AtPc(c, "classifyDocument", "updCompleted")
    /\ Rejects(c, msg)

classifyFailedWritten(c) ==
    /\ AtPc(c, "classifyDocument", "updFailed")
    /\ UpdateResolves(c, FailedData(Val(handlers[c].err)),
                      [handlers[c] EXCEPT !.pc = "done"])

classifyFailedRejected(c) ==
    /\ AtPc(c, "classifyDocument", "updFailed")
    /\ handlers' = [handlers EXCEPT ![c].pc = "rejected"]
    /\ UNCHANGED <<tasks, hist, calls, obs, others>>

\* ------------------------------------------------------------------ useTask
Observers == {"o1"}

\* Variant: the record is looked up by its id under whichever owner has it.
useTaskRefAnyOwner(uid, taskId) ==
    IF \E u \in Owners : <<u, taskId>> \in DOMAIN tasks
    THEN <<CHOOSE u \in Owners : <<u, taskId>> \in DOMAIN tasks, taskId>>
    ELSE <<uid, taskId>>

\* doc(db, 'users', user.uid, 'tasks', taskId)
useTaskRef(uid, taskId) == <<uid, taskId>>

\* State of a useTask instance whose effect found no taskId or no user.
\* active: the listener is registered; ref: the document it was registered
\* on (taskRef of the effect's closure); seen: the number of the last
\* revision the listener delivered (0: none); missing: it delivered a
\* snapshot of a missing document; cbs is a history field: the onUpdate calls
\* of the current subscription, each with the uid the instance had.
IdleObserver ==
    [user |-> Unset, taskId |-> Unset, active |-> FALSE, ref |-> Unset, seen |-> 0,
     missing |-> FALSE, task |-> Unset, isLoading |-> FALSE, error |-> Unset, cbs |-> <<>>]

\* What onSnapshot hands to the callback: the stored fields of the document.
TaskData(doc) == doc

\* Variant: the cleanup is skipped when taskId becomes null for a signed-in
\* user, so the listener of the last effect stays registered.
useTaskEffectNoCleanup(o, user, taskId) ==
    /\ <<user, taskId>> # <<obs[o].user, obs[o].taskId>>
    /\ obs' = [obs EXCEPT ![o] =
            IF ~IsSet(taskId) /\ IsSet(user) /\ obs[o].user = user
            THEN [@ EXCEPT !.taskId = taskId, !.isLoading = FALSE, !.task = Unset]
            ELSE IF ~IsSet(taskId) \/ ~IsSet(user)
            THEN [@ EXCEPT !.user = user, !.taskId = taskId, !.active = FALSE,
                           !.ref = Unset, !.seen = 0, !.missing = FALSE, !.cbs = <<>>,
                           !.isLoading = FALSE, !.task = Unset]
            ELSE [@ EXCEPT !.user = user, !.taskId = taskId, !.active = TRUE,
                           !.ref = useTaskRef(Val(user), Val(taskId)),
                           !.seen = 0, !.missing = FALSE, !.cbs = <<>>,
                           !.isLoading = TRUE, !.error = Unset]]
    /\ UNCHANGED <<tasks, hist, calls, handlers, others>>

\* Variant: a new listener resumes after the last revision the instance saw.
useTaskEffectResumes(o, user, taskId) ==
    /\ <<user, taskId>> # <<obs[o].user, obs[o].taskId>>
    /\ obs' = [obs EXCEPT ![o] =
            IF ~IsSet(taskId) \/ ~IsSet(user)
            THEN [@ EXCEPT !.user = user, !.taskId = taskId, !.active = FALSE,
                           !.ref = Unset, !.missing = FALSE, !.cbs = <<>>,
                           !.isLoading = FALSE, !.task = Unset]
            ELSE [@ EXCEPT !.user = user, !.taskId = taskId, !.active = TRUE,
                           !.ref = useTaskRef(Val(user), Val(taskId)),
                           !.missing = FALSE, !.cbs = <<>>,
                           !.isLoading = TRUE, !.error = Unset]]
    /\ UNCHANGED <<tasks, hist, calls, handlers, others>>

\* The component renders with a new user or taskId: the cleanup of the last
\* effect unsubscribes, then the effect runs with the new values and
\* registers a listener on taskRef when both are there.
useTaskEffect(o, user, taskId) ==
    /\ <<user, taskId>> # <<obs[o].user, obs[o].taskId>>
    /\ obs' = [obs EXCEPT ![o] =
            IF ~IsSet(taskId) \/ ~IsSet(user)
            THEN [@ EXCEPT !.user = user, !.taskId = taskId, !.active = FALSE,
                           !.ref = Unset, !.seen = 0, !.missing = FALSE, !.cbs = <<>>,
                           !.isLoading = FALSE, !.task = Unset]
            ELSE [@ EXCEPT !.user = user, !.taskId = taskId, !.active = TRUE,
                           !.ref = useTaskRef(Val(user), Val(taskId)),
                           !.seen = 0, !.missing = FALSE, !.cbs = <<>>,
                           !.isLoading = TRUE, !.error = Unset]]
    /\ UNCHANGED <<tasks, hist, calls, handlers, others>>

\* Variant: the listener stays registered after a terminal status.
useTaskSnapshotKeepsListening(o) ==
    /\ obs[o].active
    /\ obs[o].ref \in DOMAIN tasks
    /\ Len(tasks[obs[o].ref].log) > obs[o].seen
    /\ LET taskData == TaskData(tasks[obs[o].ref])
       IN obs' = [obs EXCEPT ![o].task = Some(taskData),
                             ![o].cbs = Append(@, [asUser |-> Val(obs[o].user),
                                                   task |-> taskData]),
                             ![o].seen = Len(tasks[obs[o].ref].log),
                             ![o].missing = FALSE,
                             ![o].isLoading = IF taskData.status \in Terminal THEN FALSE ELSE @]
    /\ UNCHANGED <<tasks, hist, calls, handlers, others>>

\* Variant: the listener hands over the same revision again.
useTaskSnapshotRedelivers(o) ==
    /\ obs[o].active
    /\ obs[o].ref \in DOMAIN tasks
    /\ Len(obs[o].cbs) < 3
    /\ LET taskData == TaskData(tasks[obs[o].ref])
           finished == taskData.status \in Terminal
       IN obs' = [obs EXCEPT ![o].task = Some(taskData),
                             ![o].cbs = Append(@, [asUser |-> Val(obs[o].user),
                                                   task |-> taskData]),
                             ![o].seen = Len(tasks[obs[o].ref].log),
                             ![o].missing = FALSE,
                             ![o].isLoading = IF finished THEN FALSE ELSE @,
                             ![o].active = IF finished THEN FALSE ELSE @]
    /\ UNCHANGED <<tasks, hist, calls, handlers, others>>

\* Variant: the listener is cancelled at the status processing already.
useTaskSnapshotStopsEarly(o) ==
    /\ obs[o].active
    /\ obs[o].ref \in DOMAIN tasks
    /\ Len(tasks[obs[o].ref].log) > obs[o].seen
    /\ LET taskData == TaskData(tasks[obs[o].ref])
           finished == taskData.status \in Terminal \cup {"processing"}
       IN obs' = [obs EXCEPT ![o].task = Some(taskData),
                             ![o].cbs = Append(@, [asUser |-> Val(obs[o].user),
                                                   task |-> taskData]),
                             ![o].seen = Len(tasks[obs[o].ref].log),
                             ![o].missing = FALSE,
                             ![o].isLoading = IF finished THEN FALSE ELSE @,
                             ![o].active = IF finished THEN FALSE ELSE @]
    /\ UNCHANGED <<tasks, hist, calls, handlers, others>>

\* The listener fires with the document as it is stored now, in a revision
\* the listener has not delivered: setTask, onUpdate, and on a terminal
\* status unsubscribe.  What it hands over is the latest revision: when
\* several were written since the last delivery, the ones between are not
\* delivered.  This is the hook's side of the callback; what onUpdate does
\* is the caller's.
useTaskSnapshotFires(o) ==
    /\ obs[o].active
    /\ obs[o].ref \in DOMAIN tasks
    /\ Len(tasks[obs[o].ref].log) > obs[o].seen
    /\ LET taskData == TaskData(tasks[obs[o].ref])
           finished == taskData.status \in Terminal
       IN obs' = [obs EXCEPT ![o].task = Some(taskData),
                             ![o].cbs = Append(@, [asUser |-> Val(obs[o].user),
                                                   task |-> taskData]),
                             ![o].seen = Len(tasks[obs[o].ref].log),
                             ![o].missing = FALSE,
                             ![o].isLoading = IF finished THEN FALSE ELSE @,
                             ![o].active = IF finished THEN FALSE ELSE @]

\* The callback of a caller whose onUpdate keeps no state.
useTaskSnapshot(o) ==
    /\ useTaskSnapshotFires(o)
    /\ UNCHANGED <<tasks, hist, calls, handlers, others>>

\* Variant: a missing document leaves isLoading as it is.
useTaskNotFoundKeepsLoading(o) ==
    /\ obs[o].active
    /\ ~obs[o].missing
    /\ obs[o].ref \notin DOMAIN tasks
    /\ obs' = [obs EXCEPT ![o].error = Some("Task not found."),
                          ![o].missing = TRUE]
    /\ UNCHANGED <<tasks, hist, calls, handlers, others>>

\* The listener fires with a snapshot of a document that does not exist.
useTaskNotFound(o) ==
    /\ obs[o].active
    /\ ~obs[o].missing
    /\ obs[o].ref \notin DOMAIN tasks
    /\ obs' = [obs EXCEPT ![o].error = Some("Task not found."),
                          ![o].isLoading = FALSE,
                          ![o].missing = TRUE]
    /\ UNCHANGED <<tasks, hist, calls, handlers, others>>

\* The listener's error callback: the listener is dead after it.
useTaskListenError(o) ==
    /\ obs[o].active
    /\ obs' = [obs EXCEPT ![o].error = Some("Failed to get task status."),
                          ![o].isLoading = FALSE,
                          ![o].active = FALSE]
    /\ UNCHANGED <<tasks, hist, calls, handlers, others>>

\* ------------------------------------------------------------------ ChatInterface
\* The useTask instance of the component, the signed-in user of useAuth, the
\* fileData prop, and what the user types.
ChatHook == "o1"
ChatUser == Some("u1")
FileData == Some("doc")
Questions == {"q"}

\* question, chatMessages and currentTaskId are the component's state.
\* asked and received count the createTask calls issued and answered: the
\* calls of one client reach the server, and their answers the client, in the
\* order they were issued.  speech holds the onTaskUpdate calls that await
\* getSpeech, each with its response.  A message's content is a text or a
\* response object.  toasts, and the field call of a message or toast, are
\* history fields: the notifications raised and the createTask call each
\* stems from.
IdleChat ==
    [question |-> "", chatMessages |-> <<>>, currentTaskId |-> Unset,
     asked |-> 0, received |-> 0, speech |-> {}, toasts |-> <<>>]

\* isAsking = isLoading || !!currentTaskId: it disables the input and the
\* submit button.
isAsking == obs[ChatHook].isLoading \/ IsSet(chat.currentTaskId)

\* The effects of the last render have run: a user event is handled after them.
chatRendered == obs[ChatHook].user = ChatUser /\ obs[ChatHook].taskId = chat.currentTaskId

\* The effect of useTask runs for the component's user and currentTaskId.
chatEffect ==
    /\ ~chatRendered
    /\ useTaskEffect(ChatHook, ChatUser, chat.currentTaskId)

\* The user types a question into the enabled input.
chatSetQuestion(q) ==
    /\ chatRendered
    /\ ~isAsking
    /\ chat.asked < MaxCalls
    /\ chat.question # q
    /\ chat' = [chat EXCEPT !.question = q]
    /\ UNCHANGED <<tasks, hist, calls, handlers, obs, page, accounts>>

\* The guards of handleAskQuestion.
handleAskQuestionReturns ==
    chat.question = "" \/ ~IsSet(FileData) \/ ~IsSet(ChatUser) \/ obs[ChatHook].isLoading

\* taskPayload of handleAskQuestion: the payload holds the file and the question.
AskTaskData == Some([type |-> "askQuestion", payload |-> Some("x")])

\* The form is submitted with the button enabled: past the guards the
\* question is appended as a user message, the input is cleared and
\* createTask is called and awaited.
handleAskQuestion ==
    /\ chatRendered
    /\ ~isAsking /\ chat.question # ""
    /\ ~handleAskQuestionReturns
    /\ chat.asked < MaxCalls
    /\ chat' = [chat EXCEPT
            !.chatMessages = Append(@, [role |-> "user", call |-> chat.asked + 1,
                                        content |-> [text |-> chat.question]]),
            !.question = "",
            !.asked = @ + 1]
    /\ UNCHANGED <<tasks, hist, calls, handlers, obs, page, accounts>>

\* A createTask call of the component arrives at the server.
chatCreateTask ==
    /\ Len(calls) < chat.asked
    /\ createTask(Val(ChatUser), AskTaskData)

\* The awaited createTask call c has answered: {error} becomes an assistant
\* message and a toast, {taskId} becomes the currentTaskId.
chatCreateTaskAnswered(c) ==
    /\ c = chat.received + 1
    /\ c \in 1..Len(calls) /\ calls[c].pc = "returned"
    /\ chat' = IF calls[c].ret.tag = "error"
               THEN [chat EXCEPT
                        !.received = c,
                        !.chatMessages = Append(@, [role |-> "assistant", call |-> c,
                                                    content |-> [text |-> calls[c].ret.error]]),
                        !.toasts = Append(@, [title |-> "Error", call |-> c,
                                              description |-> Some(calls[c].ret.error)])]
               ELSE [chat EXCEPT !.received = c,
                                 !.currentTaskId = Some(calls[c].ret.taskId)]
    /\ UNCHANGED <<tasks, hist, calls, handlers, obs, page, accounts>>

\* onTaskUpdate of ChatInterface up to its first await: a completed task
\* waits for getSpeech, a failed task becomes an assistant message and a
\* toast and clears currentTaskId, any other status does nothing.
chatOnTaskUpdate(st, task) ==
    IF task.status = "completed"
    THEN [st EXCEPT !.speech = @ \cup {[call |-> task.call, response |-> Val(task.result)]}]
    ELSE IF task.status = "failed"
    THEN [st EXCEPT
            !.chatMessages = Append(@, [role |-> "assistant", call |-> task.call,
                                        content |->
                                            [text |-> "Sorry, I encountered an error: "
                                                          \o Val(task.error)]]),
            !.toasts = Append(@, [title |-> "Analysis Failed", call |-> task.call,
                                  description |-> task.error]),
            !.currentTaskId = Unset]
    ELSE st

\* The listener of the component's useTask instance fires.
chatSnapshot ==
    /\ useTaskSnapshotFires(ChatHook)
    /\ chat' = chatOnTaskUpdate(chat, TaskData(tasks[obs[ChatHook].ref]))
    /\ UNCHANGED <<tasks, hist, calls, handlers, page, accounts>>

\* What getSpeech hands back as far as the component reads it: the audio,
\* or nothing when it returned {error}.
AudioUrls == {Unset, Some("audio")}

\* getSpeech has answered the onTaskUpdate call w: the response becomes an
\* assistant message and currentTaskId is cleared.
chatSpeechAnswered(w, audioUrl) ==
    /\ w \in chat.speech
    /\ chat' = [chat EXCEPT
            !.speech = @ \ {w},
            !.chatMessages = Append(@, [role |-> "assistant", call |-> w.call,
                                        content |-> w.response, audioUrl |-> audioUrl]),
            !.currentTaskId = Unset]
    /\ UNCHANGED <<tasks, hist, calls, handlers, obs, page, accounts>>

\* ------------------------------------------------------------------ DocumentVerifierPage
\* The useTask instance of the page, its signed-in user, and the files a
\* user selects or drops: two documents of an accepted type and one of
\* another type.
PageHook == "o1"
PageUser == Some("u1")
AcceptedFiles == {"f1", "f2"}
Files == AcceptedFiles \cup {"img"}

\* result, uploadedFile and currentTaskId are the page's state.  reading
\* holds the files whose FileReader has not fired onload yet.  closure is
\* the uploadedFile seen by the onTaskUpdate that the registered listener
\* calls: the one of the render in which the effect subscribed.  files[c] is
\* the file createTask call c was made for; asked = Len(files) calls were
\* issued and received of them answered, in order.  picked counts the
\* processFile calls.  toasts and the field call of a result are history.
IdlePage ==
    [result |-> Unset, uploadedFile |-> Unset, currentTaskId |-> Unset, closure |-> Unset,
     reading |-> {}, files |-> <<>>, received |-> 0, picked |-> 0, toasts |-> <<>>]

\* The effects of the last render have run.
pageRendered == obs[PageHook].user = PageUser /\ obs[PageHook].taskId = page.currentTaskId

\* The effect of useTask runs for the page's user and currentTaskId.
pageEffect ==
    /\ ~pageRendered
    /\ useTaskEffect(PageHook, PageUser, page.currentTaskId)

\* processFile(file), from the file input or from a drop (the drop zone
\* takes a drop at any time): a file of an accepted type clears the result
\* and is handed to a FileReader, another file raises a toast.
processFile(file) ==
    /\ pageRendered
    /\ page.picked < MaxCalls
    /\ IsSet(PageUser)
    /\ page' = IF file \in AcceptedFiles
               THEN [page EXCEPT !.picked = @ + 1, !.result = Unset,
                                 !.reading = @ \cup {file}]
               ELSE [page EXCEPT !.picked = @ + 1,
                                 !.toasts = Append(@, [title |-> "Unsupported File Type",
                                                       call |-> 0, description |-> Unset])]
    /\ UNCHANGED <<tasks, hist, calls, handlers, obs, chat, accounts>>

\* taskPayload of processFile: the payload is the file.
ClassifyTaskData == Some([type |-> "classifyDocument", payload |-> Some("x")])

\* reader.onload: the file becomes the uploadedFile and createTask is called
\* for it and awaited.
pageFileRead(file) ==
    /\ file \in page.reading
    /\ page' = [page EXCEPT !.reading = @ \ {file},
                            !.uploadedFile = Some(file),
                            !.files = Append(@, file)]
    /\ UNCHANGED <<tasks, hist, calls, handlers, obs, chat, accounts>>

\* A createTask call of the page arrives at the server.
pageCreateTask ==
    /\ Len(calls) < Len(page.files)
    /\ createTask(Val(PageUser), ClassifyTaskData)

\* The awaited createTask call c has answered: {error} becomes a toast and
\* clears the uploadedFile, {taskId} becomes the currentTaskId; the render
\* that follows subscribes with the onTaskUpdate of that render.
pageCreateTaskAnswered(c) ==
    /\ c = page.received + 1
    /\ c \in 1..Len(calls) /\ calls[c].pc = "returned"
    /\ page' = IF calls[c].ret.tag = "error"
               THEN [page EXCEPT
                        !.received = c,
                        !.toasts = Append(@, [title |-> "Error", call |-> c,
                                              description |-> Some(calls[c].ret.error)]),
                        !.uploadedFile = Unset]
               ELSE [page EXCEPT !.received = c,
                                 !.currentTaskId = Some(calls[c].ret.taskId),
                                 !.closure = page.uploadedFile]
    /\ UNCHANGED <<tasks, hist, calls, handlers, obs, chat, accounts>>

\* Variant: a failed task raises the toast and stays the current task.
pageOnTaskUpdateKeepsTask(st, task) ==
    IF task.status = "completed"
    THEN [st EXCEPT !.result = Some([analysis |-> Val(task.result), file |-> st.closure,
                                     call |-> task.call]),
                    !.currentTaskId = Unset]
    ELSE IF task.status = "failed"
    THEN [st EXCEPT !.toasts = Append(@, [title |-> "Analysis Failed", call |-> task.call,
                                          description |-> task.error]),
                    !.uploadedFile = Unset]
    ELSE st

\* onTaskUpdate of DocumentVerifierPage: a completed task sets the result to
\* {...task.result, ...uploadedFile} and clears currentTaskId; a failed task
\* raises a toast and clears uploadedFile and currentTaskId.
pageOnTaskUpdate(st, task) ==
    IF task.status = "completed"
    THEN [st EXCEPT !.result = Some([analysis |-> Val(task.result), file |-> st.closure,
                                     call |-> task.call]),
                    !.currentTaskId = Unset]
    ELSE IF task.status = "failed"
    THEN [st EXCEPT !.toasts = Append(@, [title |-> "Analysis Failed", call |-> task.call,
                                          description |-> task.error]),
                    !.uploadedFile = Unset,
                    !.currentTaskId = Unset]
    ELSE st

\* The listener of the page's useTask instance fires.
pageSnapshot ==
    /\ pageRendered
    /\ useTaskSnapshotFires(PageHook)
    /\ page' = pageOnTaskUpdate(page, TaskData(tasks[obs[PageHook].ref]))
    /\ UNCHANGED <<tasks, hist, calls, handlers, chat, accounts>>

\* ------------------------------------------------------------------ accounts
\* Number of SignupPage.onSubmit invocations explored.
MaxSignups == 2

\* Number of updateUserInFirestore invocations explored.
MaxUpdates == 3

\* z.enum(['user', 'lawyer'])
Roles == {"user", "lawyer"}

\* error.message of a rejected Firebase Auth call.
AuthMsgs == {"auth error"}

\* The uid Firebase Auth gives the account created by the sign-up s: one no
\* other account has or had.
SignupUid(s) == <<"signup", s>>

\* A document of the users collection with no field.
NoProfile == [email |-> Unset, role |-> Unset]

\* email, displayName and photoURL of the auth user, as one field.
UserDetails(uid) == [email |-> Some(uid)]

\* setDoc(userRef, data): the document is replaced.
SetDoc(store, uid, data) ==
    [p \in DOMAIN store \cup {uid} |-> IF p = uid THEN Merge(NoProfile, data) ELSE store[p]]

\* setDoc(userRef, data, { merge: true }): the fields of data are written
\* into the document, which is created when it does not exist.
SetDocMerge(store, uid, data) ==
    [p \in DOMAIN store \cup {uid} |->
        IF p # uid THEN store[p]
        ELSE IF uid \in DOMAIN store THEN Merge(store[uid], data)
        ELSE Merge(NoProfile, data)]

\* A started invocation of updateUserInFirestore(user): it awaits getDoc.
\* found is what userDoc.exists() gave; before and after are history
\* fields: the document as the setDoc of the invocation found and left it.
StartedUpdate(uid) ==
    [uid |-> uid, pc |-> "getDoc", found |-> FALSE, before |-> Unset, after |-> Unset]

\* onAuthStateChanged calls back with a user: AuthProvider awaits
\* updateUserInFirestore(user).
authStateChanged(uid) == updates' = Append(updates, StartedUpdate(uid))

\* SignupPage.onSubmit(values): createUserWithEmailAndPassword is awaited.
onSubmit(role) ==
    /\ Len(signups) < MaxSignups
    /\ signups' = Append(signups, [role |-> role, pc |-> "createUser", uid |-> Unset,
                                   error |-> Unset])
    /\ UNCHANGED <<auth, users, lawyerRecords, updates, admin, taskState>>

\* createUserWithEmailAndPassword resolves: the account exists and is signed
\* in, so the auth-state listener of AuthProvider is called with it;
\* createUserInFirestore(user, role) is awaited.
signupUserCreated(s) ==
    /\ s \in 1..Len(signups)
    /\ signups[s].pc = "createUser"
    /\ Len(updates) < MaxUpdates
    /\ auth' = auth \cup {SignupUid(s)}
    /\ signups' = [signups EXCEPT ![s].pc = "setDoc", ![s].uid = Some(SignupUid(s))]
    /\ authStateChanged(SignupUid(s))
    /\ UNCHANGED <<users, lawyerRecords, admin, taskState>>

\* createUserWithEmailAndPassword rejects: the catch block shows the toast.
signupCreateUserFailed(s, msg) ==
    /\ s \in 1..Len(signups)
    /\ signups[s].pc = "createUser"
    /\ signups' = [signups EXCEPT ![s].pc = "failed", ![s].error = Some(msg)]
    /\ UNCHANGED <<auth, users, lawyerRecords, updates, admin, taskState>>

\* createUserInFirestore: setDoc(userRef, {email, displayName, photoURL,
\* role, createdAt}) resolves; router.push('/').
createUserInFirestore(s) ==
    /\ s \in 1..Len(signups)
    /\ signups[s].pc = "setDoc"
    /\ users' = SetDoc(users, Val(signups[s].uid),
                       UserDetails(Val(signups[s].uid)) @@ [role |-> Some(signups[s].role)])
    /\ signups' = [signups EXCEPT ![s].pc = "done"]
    /\ UNCHANGED <<auth, lawyerRecords, updates, admin, taskState>>

\* The setDoc of createUserInFirestore rejects: the catch block of onSubmit
\* shows the toast.
createUserInFirestoreFailed(s, msg) ==
    /\ s \in 1..Len(signups)
    /\ signups[s].pc = "setDoc"
    /\ signups' = [signups EXCEPT ![s].pc = "failed", ![s].error = Some(msg)]
    /\ UNCHANGED <<auth, users, lawyerRecords, updates, admin, taskState>>

\* AuthProvider mounts in a client in which an account is signed in (a
\* reload, a new tab): the listener is called with the account.
authStateRestored(uid) ==
    /\ uid \in auth
    /\ Len(updates) < MaxUpdates
    /\ authStateChanged(uid)
    /\ UNCHANGED <<auth, users, lawyerRecords, signups, admin, taskState>>

\* updateUserInFirestore: getDoc(userRef) resolves.
updateUserGetDoc(l) ==
    /\ l \in 1..Len(updates)
    /\ updates[l].pc = "getDoc"
    /\ updates' = [updates EXCEPT ![l].pc = "setDoc",
                                  ![l].found = (updates[l].uid \in DOMAIN users)]
    /\ UNCHANGED <<auth, users, lawyerRecords, signups, admin, taskState>>

\* The fields updateUserInFirestore writes: with the default role 'user' when
\* getDoc found no document, without a role when it found one.
UpdateData(uid, found) ==
    IF ~found THEN UserDetails(uid) @@ [role |-> Some("user")] ELSE UserDetails(uid)

\* updateUserInFirestore: setDoc(userRef, data, { merge: true }) resolves.
updateUserSetDoc(l) ==
    /\ l \in 1..Len(updates)
    /\ updates[l].pc = "setDoc"
    /\ users' = SetDocMerge(users, updates[l].uid, UpdateData(updates[l].uid, updates[l].found))
    /\ updates' = [updates EXCEPT
            ![l].pc = "done",
            ![l].before = IF updates[l].uid \in DOMAIN users
                          THEN Some(users[updates[l].uid]) ELSE Unset,
            ![l].after = Some(users'[updates[l].uid])]
    /\ UNCHANGED <<auth, lawyerRecords, signups, admin, taskState>>

\* getDoc or setDoc of updateUserInFirestore rejects: the listener callback
\* ends there.
updateUserRejected(l) ==
    /\ l \in 1..Len(updates)
    /\ updates[l].pc \in {"getDoc", "setDoc"}
    /\ updates' = [updates EXCEPT ![l].pc = "rejected"]
    /\ UNCHANGED <<auth, users, lawyerRecords, signups, admin, taskState>>

\* ------------------------------------------------------------------ admin actions
\* Number of addLawyer and deleteLawyer invocations explored.
MaxAdmin == 3

\* The uid auth.createUser gives the account of the addLawyer call a, and the
\* id add() gives its lawyers document: none that is or was in use.
LawyerUid(a) == <<"admin", a>>
LawyerId(a) == <<"lawyer", a>>

\* The ids deleteLawyer is called with: of documents that exist, existed or
\* never did.
LawyerIds == {LawyerId(a) : a \in 1..MaxAdmin}

\* What an admin call has returned: nothing yet, {id}, {success: true} or
\* {error}.
AdminNoRet == [tag |-> "none", id |-> Unset, error |-> Unset]
RetId(id) == [tag |-> "id", id |-> Some(id), error |-> Unset]
RetSuccess == [tag |-> "success", id |-> Unset, error |-> Unset]
AdminRetError(msg) == [tag |-> "error", id |-> Unset, error |-> Some(msg)]

\* Firebase Auth, the users collection and the lawyers collection.
Stores == <<auth, users, lawyerRecords>>

\* The admin call a has not returned.
Running(a) == admin[a].pc # "returned"

\* A new invocation is appended to the invocations.  before, after and alone
\* are history fields: the stores when the call started and when it
\* returned, and whether no other admin call ran during it.
StartAdmin(op, id, pc) ==
    /\ Len(admin) < MaxAdmin
    /\ admin' = Append([a \in 1..Len(admin) |->
                            IF Running(a) THEN [admin[a] EXCEPT !.alone = FALSE] ELSE admin[a]],
                       [op |-> op, id |-> id, pc |-> pc, uid |-> Unset, ret |-> AdminNoRet,
                        before |-> Stores, after |-> Unset,
                        alone |-> \A a \in 1..Len(admin) : ~Running(a)])

\* The call a returns ret.
AdminReturns(a, ret) ==
    admin' = [admin EXCEPT ![a].pc = "returned", ![a].ret = ret, ![a].after = Some(Stores')]

AtAdminPc(a, op, pcs) ==
    a \in 1..Len(admin) /\ admin[a].op = op /\ admin[a].pc \in pcs

\* Remove(store, key): the document is deleted; deleting a document that
\* does not exist succeeds.
Remove(store, key) == [p \in DOMAIN store \ {key} |-> store[p]]

\* addLawyer(lawyer): auth.createUser is awaited.
addLawyer ==
    /\ StartAdmin("addLawyer", Unset, "createUser")
    /\ UNCHANGED <<auth, users, lawyerRecords, signups, updates, taskState>>

\* auth.createUser resolves; the set of users/{uid} is awaited.
addLawyerUserCreated(a) ==
    /\ AtAdminPc(a, "addLawyer", {"createUser"})
    /\ auth' = auth \cup {LawyerUid(a)}
    /\ admin' = [admin EXCEPT ![a].pc = "setUser", ![a].uid = Some(LawyerUid(a))]
    /\ UNCHANGED <<users, lawyerRecords, signups, updates, taskState>>

\* users/{uid} is set with the role 'lawyer'; the add to lawyers is awaited.
addLawyerProfileSet(a) ==
    /\ AtAdminPc(a, "addLawyer", {"setUser"})
    /\ users' = SetDoc(users, Val(admin[a].uid),
                       UserDetails(Val(admin[a].uid)) @@ [role |-> Some("lawyer")])
    /\ admin' = [admin EXCEPT ![a].pc = "addRecord"]
    /\ UNCHANGED <<auth, lawyerRecords, signups, updates, taskState>>

\* The lawyers document is added with the uid; {id} is returned.
addLawyerRecordAdded(a) ==
    /\ AtAdminPc(a, "addLawyer", {"addRecord"})
    /\ lawyerRecords' = [p \in DOMAIN lawyerRecords \cup {LawyerId(a)} |->
                            IF p = LawyerId(a) THEN [uid |-> admin[a].uid]
                            ELSE lawyerRecords[p]]
    /\ UNCHANGED <<auth, users>>
    /\ AdminReturns(a, RetId(LawyerId(a)))
    /\ UNCHANGED <<signups, updates, taskState>>

\* One of the three awaited calls rejects: the catch block returns {error}.
addLawyerRejected(a, msg) ==
    /\ AtAdminPc(a, "addLawyer", {"createUser", "setUser", "addRecord"})
    /\ UNCHANGED <<auth, users, lawyerRecords>>
    /\ AdminReturns(a, AdminRetError(msg))
    /\ UNCHANGED <<signups, updates, taskState>>

\* deleteLawyer(id): the get of lawyers/{id} is awaited.
deleteLawyer(id) ==
    /\ StartAdmin("deleteLawyer", Some(id), "get")
    /\ UNCHANGED <<auth, users, lawyerRecords, signups, updates, taskState>>

\* The get resolves: without a document 'Lawyer not found' is thrown and
\* returned as {error}; with a uid in the document auth.deleteUser is awaited
\* next, without one the delete of the lawyers document.
deleteLawyerGot(a) ==
    /\ AtAdminPc(a, "deleteLawyer", {"get"})
    /\ UNCHANGED <<auth, users, lawyerRecords>>
    /\ LET id == Val(admin[a].id)
       IN IF id \notin DOMAIN lawyerRecords
          THEN AdminReturns(a, AdminRetError("Lawyer not found"))
          ELSE admin' = [admin EXCEPT
                  ![a].uid = lawyerRecords[id].uid,
                  ![a].pc = IF IsSet(lawyerRecords[id].uid) THEN "deleteUser"
                            ELSE "deleteRecord"]
    /\ UNCHANGED <<signups, updates, taskState>>

\* auth.deleteUser(uid) resolves; the delete of users/{uid} is awaited.
deleteLawyerUserDeleted(a) ==
    /\ AtAdminPc(a, "deleteLawyer", {"deleteUser"})
    /\ Val(admin[a].uid) \in auth
    /\ auth' = auth \ {Val(admin[a].uid)}
    /\ admin' = [admin EXCEPT ![a].pc = "deleteUserDoc"]
    /\ UNCHANGED <<users, lawyerRecords, signups, updates, taskState>>

\* auth.deleteUser(uid) rejects because there is no account with the uid.
deleteLawyerUserMissing(a) ==
    /\ AtAdminPc(a, "deleteLawyer", {"deleteUser"})
    /\ Val(admin[a].uid) \notin auth
    /\ UNCHANGED <<auth, users, lawyerRecords>>
    /\ AdminReturns(a, AdminRetError("auth/user-not-found"))
    /\ UNCHANGED <<signups, updates, taskState>>

\* users/{uid} is deleted; the delete of lawyers/{id} is awaited.
deleteLawyerUserDocDeleted(a) ==
    /\ AtAdminPc(a, "deleteLawyer", {"deleteUserDoc"})
    /\ users' = Remove(users, Val(admin[a].uid))
    /\ admin' = [admin EXCEPT ![a].pc = "deleteRecord"]
    /\ UNCHANGED <<auth, lawyerRecords, signups, updates, taskState>>

\* lawyers/{id} is deleted; {success: true} is returned.
deleteLawyerRecordDeleted(a) ==
    /\ AtAdminPc(a, "deleteLawyer", {"deleteRecord"})
    /\ lawyerRecords' = Remove(lawyerRecords, Val(admin[a].id))
    /\ UNCHANGED <<auth, users>>
    /\ AdminReturns(a, RetSuccess)
    /\ UNCHANGED <<signups, updates, taskState>>

\* One of the awaited calls rejects: the catch block returns {error}.
deleteLawyerRejected(a, msg) ==
    /\ AtAdminPc(a, "deleteLawyer", {"get", "deleteUser", "deleteUserDoc", "deleteRecord"})
    /\ UNCHANGED <<auth, users, lawyerRecords>>
    /\ AdminReturns(a, AdminRetError(msg))
    /\ UNCHANGED <<signups, updates, taskState>>

\* ------------------------------------------------------------------ specification
Init ==
    /\ tasks = <<>>
    /\ hist = EmptyBag
    /\ calls = <<>>
    /\ handlers = <<>>
    /\ obs = [o \in Observers |-> IdleObserver]
    /\ chat = IdleChat
    /\ page = IdlePage
    /\ auth = {}
    /\ users = <<>>
    /\ lawyerRecords = <<>>
    /\ signups = <<>>
    /\ updates = <<>>
    /\ admin = <<>>

Calls == 1..MaxCalls

\* The add() awaited by call c settles.
CreateStep(c) ==
    \/ createTaskAdded(c)
    \/ \E msg \in StorageMsgs : createTaskAddFailed(c, msg)

\* An AI flow awaited by handler c settles.
FlowStep(c) ==
    \/ \E outcome \in AskOutcomes : askFlowReturned(c, outcome)
    \/ \E outcome \in ClassifyOutcomes : classifyFlowReturned(c, outcome)

\* A Firestore request awaited by handler c settles.
StorageStep(c) ==
    \/ askProcessingWritten(c)
    \/ \E msg \in StorageMsgs : askProcessingFailed(c, msg)
    \/ askCompletedWritten(c)
    \/ \E msg \in StorageMsgs : askCompletedFailed(c, msg)
    \/ askFailedWritten(c)
    \/ askFailedRejected(c)
    \/ classifyProcessingWritten(c)
    \/ \E msg \in StorageMsgs : classifyProcessingFailed(c, msg)
    \/ classifyLawyersFound(c)
    \/ \E msg \in StorageMsgs : classifyLawyersFailed(c, msg)
    \/ classifyHistoryAdded(c)
    \/ classifyHistoryFailed(c)
    \/ classifyCompletedWritten(c)
    \/ \E msg \in StorageMsgs : classifyCompletedFailed(c, msg)
    \/ classifyFailedWritten(c)
    \/ classifyFailedRejected(c)

\* The steps after the call of createTask number c.
CallStep(c) == CreateStep(c) \/ FlowStep(c) \/ StorageStep(c)

\* The server alone: createTask with every input, and the handlers.
Next ==
    \/ \E userId \in UserIds, taskData \in TaskDatas : createTask(userId, taskData)
    \/ \E c \in Calls : CallStep(c)

Spec == Init /\ [][Next]_vars

\* Firestore answers the add() of every createTask call.  Nothing is assumed
\* of the handlers: they may stop at any await.
FairCreateSpec == Spec /\ \A c \in Calls : WF_vars(CreateStep(c))

\* Firestore answers every request, with success or with an error.  The AI
\* flows may never answer.
FairSpec == Spec /\ \A c \in Calls : WF_vars(CreateStep(c)) /\ WF_vars(StorageStep(c))

\* The server and the useTask instances.  The calls are those ChatInterface
\* makes: a signed-in user, the type askQuestion and its payload.
AskTaskDatas == {Some([type |-> "askQuestion", payload |-> Some("x")])}

\* The steps of the askQuestion handler of call c.
AskStep(c) ==
    \/ askProcessingWritten(c)
    \/ \E msg \in StorageMsgs : askProcessingFailed(c, msg)
    \/ \E outcome \in AskOutcomes : askFlowReturned(c, outcome)
    \/ askCompletedWritten(c)
    \/ \E msg \in StorageMsgs : askCompletedFailed(c, msg)
    \/ askFailedWritten(c)
    \/ askFailedRejected(c)

ObsNext ==
    \/ \E userId \in Owners, taskData \in AskTaskDatas : createTask(userId, taskData)
    \/ \E c \in Calls : CreateStep(c) \/ AskStep(c)
    \/ \E o \in Observers, user \in {Unset} \cup {Some(u) : u \in Owners},
          taskId \in {Unset} \cup {Some(i) : i \in TaskIds} : useTaskEffect(o, user, taskId)
    \/ \E o \in Observers : useTaskSnapshot(o)
    \/ \E o \in Observers : useTaskNotFound(o)
    \/ \E o \in Observers : useTaskListenError(o)

ObsSpec == Init /\ [][ObsNext]_vars

\* A registered listener is served: the snapshot of the stored document, or
\* of its absence, is delivered in the end.  Nothing is assumed of the
\* server steps, of the component's renders, or of listener errors.
FairObsSpec ==
    ObsSpec /\ \A o \in Observers : WF_vars(useTaskSnapshot(o)) /\ WF_vars(useTaskNotFound(o))

\* The outcomes of classifyDocument explored with the page: an output with
\* a lawyer category, and an exception.
PageClassifyOutcomes ==
    {FlowOk([lawyerCategory |-> "Contract Law", expenditureAnalysis |-> [estimatedHearings |-> 2]])}
        \cup {FlowThrow(m) : m \in FlowMsgs}

\* The steps of the classifyDocument handler of call c.
ClassifyStep(c) ==
    \/ classifyProcessingWritten(c)
    \/ \E msg \in StorageMsgs : classifyProcessingFailed(c, msg)
    \/ \E outcome \in PageClassifyOutcomes : classifyFlowReturned(c, outcome)
    \/ classifyLawyersFound(c)
    \/ \E msg \in StorageMsgs : classifyLawyersFailed(c, msg)
    \/ classifyHistoryAdded(c)
    \/ classifyHistoryFailed(c)
    \/ classifyCompletedWritten(c)
    \/ \E msg \in StorageMsgs : classifyCompletedFailed(c, msg)
    \/ classifyFailedWritten(c)
    \/ classifyFailedRejected(c)

\* A ChatInterface with its useTask instance, and the server.
ChatNext ==
    \/ chatEffect
    \/ \E q \in Questions : chatSetQuestion(q)
    \/ handleAskQuestion
    \/ chatCreateTask
    \/ \E c \in Calls : CreateStep(c) \/ AskStep(c)
    \/ \E c \in Calls : chatCreateTaskAnswered(c)
    \/ chatSnapshot
    \/ useTaskListenError(ChatHook)
    \/ \E w \in chat.speech, audioUrl \in AudioUrls : chatSpeechAnswered(w, audioUrl)

ChatSpec == Init /\ [][ChatNext]_vars

\* A DocumentVerifierPage with its useTask instance, and the server.
PageNext ==
    \/ pageEffect
    \/ \E file \in Files : processFile(file)
    \/ \E file \in Files : pageFileRead(file)
    \/ pageCreateTask
    \/ \E c \in Calls : CreateStep(c) \/ ClassifyStep(c)
    \/ \E c \in Calls : pageCreateTaskAnswered(c)
    \/ pageSnapshot
    \/ useTaskListenError(PageHook)

PageSpec == Init /\ [][PageNext]_vars

\* One calling interface with its useTask instance and the server: a
\* ChatInterface or a DocumentVerifierPage.
UiNext ==
    \/ page = IdlePage /\ ChatNext
    \/ chat = IdleChat /\ PageNext

UiSpec == Init /\ [][UiNext]_vars

\* Email sign-ups and the auth-state listener of AuthProvider.
SignupNext ==
    \/ \E role \in Roles : onSubmit(role)
    \/ \E s \in 1..MaxSignups : signupUserCreated(s)
    \/ \E s \in 1..MaxSignups, msg \in AuthMsgs : signupCreateUserFailed(s, msg)
    \/ \E s \in 1..MaxSignups : createUserInFirestore(s)
    \/ \E s \in 1..MaxSignups, msg \in StorageMsgs : createUserInFirestoreFailed(s, msg)
    \/ \E s \in 1..MaxSignups : authStateRestored(SignupUid(s))
    \/ \E l \in 1..MaxUpdates : updateUserGetDoc(l)
    \/ \E l \in 1..MaxUpdates : updateUserSetDoc(l)
    \/ \E l \in 1..MaxUpdates : updateUserRejected(l)

SignupSpec == Init /\ [][SignupNext]_vars

\* The admin actions on the lawyers: calls of addLawyer and deleteLawyer,
\* which may overlap.
AdminNext ==
    \/ addLawyer
    \/ \E id \in LawyerIds : deleteLawyer(id)
    \/ \E a \in 1..MaxAdmin : addLawyerUserCreated(a)
    \/ \E a \in 1..MaxAdmin : addLawyerProfileSet(a)
    \/ \E a \in 1..MaxAdmin : addLawyerRecordAdded(a)
    \/ \E a \in 1..MaxAdmin, msg \in AuthMsgs \cup StorageMsgs : addLawyerRejected(a, msg)
    \/ \E a \in 1..MaxAdmin : deleteLawyerGot(a)
    \/ \E a \in 1..MaxAdmin : deleteLawyerUserDeleted(a)
    \/ \E a \in 1..MaxAdmin : deleteLawyerUserMissing(a)
    \/ \E a \in 1..MaxAdmin : deleteLawyerUserDocDeleted(a)
    \/ \E a \in 1..MaxAdmin : deleteLawyerRecordDeleted(a)
    \/ \E a \in 1..MaxAdmin, msg \in AuthMsgs \cup StorageMsgs : deleteLawyerRejected(a, msg)

AdminSpec == Init /\ [][AdminNext]_vars

\* ------------------------------------------------------------------ properties
\* The records created by call c, and the record handler c was started for.
DocsOf(c) == {p \in DOMAIN tasks : tasks[p].call = c}
Started(c) == c \in 1..Len(handlers) /\ handlers[c].pc # "none"
Settled(c) == c \in 1..Len(handlers) /\ handlers[c].pc \in {"done", "rejected"}

Edges ==
    {<<"pending", "processing">>, <<"processing", "completed">>, <<"processing", "failed">>}

\* The statuses of a record in write order change along the edges E only.
FollowsEdges(log, E) ==
    /\ log[1] = "pending"
    /\ \A i \in 1..(Len(log) - 1) : <<log[i], log[i + 1]>> \in E

\* C1 as stated: every status change of every task record is one of
\* pending -> processing, processing -> completed, processing -> failed.
C1_StatusEdges ==
    \A p \in DOMAIN tasks : FollowsEdges(tasks[p].log, Edges)

\* C1 amended: the status changes are the three edges and pending -> failed;
\* pending -> failed happens only when the update to 'processing' was
\* rejected (the AI flow was never called); a terminal status never changes.
C1_StatusEdgesAmended ==
    \A p \in DOMAIN tasks :
        LET log == tasks[p].log IN
        /\ FollowsEdges(log, Edges \cup {<<"pending", "failed">>})
        /\ tasks[p].status = log[Len(log)]
        /\ log = <<"pending", "failed">> =>
              /\ handlers[tasks[p].call].flow = "none"
              /\ handlers[tasks[p].call].err \in {Some(m) : m \in StorageMsgs}

\* C1 witness: a record went from pending to failed, another through
\* processing to a terminal status.
C1_Witness ==
    /\ \E p \in DOMAIN tasks : tasks[p].log = <<"pending", "failed">>
    /\ \E p \in DOMAIN tasks : Len(tasks[p].log) = 3

\* C2: completed records carry a result and no error, failed records an
\* error and no result, pending and processing records neither.
C2_ResultXorError ==
    \A p \in DOMAIN tasks :
        /\ tasks[p].status \in {"pending", "processing", "completed", "failed"}
        /\ tasks[p].status = "completed" => IsSet(tasks[p].result) /\ ~IsSet(tasks[p].error)
        /\ tasks[p].status = "failed" => IsSet(tasks[p].error) /\ ~IsSet(tasks[p].result)
        /\ tasks[p].status \in {"pending", "processing"} =>
              ~IsSet(tasks[p].result) /\ ~IsSet(tasks[p].error)

\* C2 witness: a completed and a failed record exist, written by the two handlers.
C2_Witness ==
    \E p, q \in DOMAIN tasks :
        /\ tasks[p].status = "completed" /\ tasks[q].status = "failed"
        /\ tasks[p].type # tasks[q].type

Returned(c) == c \in 1..Len(calls) /\ calls[c].pc = "returned"
ReturnedTaskId(c) == Returned(c) /\ calls[c].ret.tag = "taskId"
ReturnedError(c) == Returned(c) /\ calls[c].ret.tag = "error"

\* C3: createTask returns {taskId} in the step that writes the pending
\* record; at its return the handler has not gone past its first await and
\* the record is still pending; and every call whose add() is answered
\* returns, whatever the handlers do (no step of a handler is assumed).
C3_ReturnsWithoutWaiting ==
    /\ [][\A c \in Calls :
            /\ (DocsOf(c) = {} /\ DocsOf(c)' # {}) => ReturnedTaskId(c)'
            /\ (~Returned(c) /\ ReturnedTaskId(c)') =>
                  /\ handlers'[c].pc \in {"none", "updProcessing"}
                  /\ \A p \in DocsOf(c)' : tasks'[p].status = "pending"]_vars
    /\ \A c \in Calls : (c \in 1..Len(calls)) ~> Returned(c)

\* C3 witness: createTask has returned {taskId} while the handler still
\* waits for the AI flow and the record is in processing, and for another
\* call while the record is still pending.
C3_Witness ==
    \E c, d \in 1..Len(calls) :
        /\ ReturnedTaskId(c) /\ handlers[c].pc = "flow"
        /\ \A p \in DocsOf(c) : tasks[p].status = "processing"
        /\ ReturnedTaskId(d) /\ handlers[d].pc = "updProcessing"
        /\ \A p \in DocsOf(d) : tasks[p].status = "pending"

\* The AI flow of handler c threw or returned {error: msg}.
FlowFailed(c) == c \in 1..Len(handlers) /\ handlers[c].flow \in {"error", "throw"}

\* C4 as stated: once the handler has ended after a failure of its flow, the
\* task is failed with the failure's message and createTask returned {taskId}.
C4_FailedOnHandlerError ==
    \A c \in 1..Len(calls) :
        (FlowFailed(c) /\ Settled(c)) =>
            /\ ReturnedTaskId(c)
            /\ \A p \in DocsOf(c) :
                  tasks[p].status = "failed" /\ tasks[p].error = Some(handlers[c].flowMsg)

\* C4 amended: after a failure of the flow createTask has returned {taskId}
\* and the handler issues the update to failed with the failure's message;
\* when that update is applied the task is failed with that message, when it
\* is rejected the task stays in processing; one of the two happens.
C4_FailedOnHandlerErrorAmended ==
    /\ [](\A c \in 1..Len(calls) :
            FlowFailed(c) =>
                /\ ReturnedTaskId(c)
                /\ handlers[c].err = Some(handlers[c].flowMsg)
                /\ Cardinality(DocsOf(c)) = 1
                /\ \A p \in DocsOf(c) :
                      /\ handlers[c].pc = "done" =>
                            /\ tasks[p].status = "failed"
                            /\ tasks[p].error = Some(handlers[c].flowMsg)
                      /\ handlers[c].pc # "done" =>
                            /\ handlers[c].pc \in {"updFailed", "rejected"}
                            /\ tasks[p].status = "processing"
                            /\ tasks[p].error = Unset)
    /\ \A c \in Calls : FlowFailed(c) ~> Settled(c)

\* C4 witness: a flow returned {error}, another threw, and both tasks are
\* failed with the message.
C4_Witness ==
    \E c, d \in 1..Len(calls) :
        /\ handlers[c].flow = "error" /\ handlers[d].flow = "throw"
        /\ handlers[c].pc = "done" /\ handlers[d].pc = "done"
        /\ \A p \in DocsOf(c) \cup DocsOf(d) : tasks[p].status = "failed"

\* The handler of call c has its output: the value it passes to the update
\* to 'completed'.
HasOutput(c) == c \in 1..Len(handlers) /\ IsSet(handlers[c].final)

\* The output the handler of kind k computes from the value v of its flow.
OutputFor(k, v) ==
    IF k = "askQuestion" THEN v
    ELSE FinalResult(v, IF v.lawyerCategory # "" THEN LawyersQuery(v.lawyerCategory) ELSE {})

\* C5 as stated: once a handler that produced its output v has ended, the
\* task is completed and its stored result is v.
C5_CompletedWithResult ==
    \A c \in 1..Len(calls) :
        (HasOutput(c) /\ Settled(c)) =>
            \A p \in DocsOf(c) :
                tasks[p].status = "completed" /\ tasks[p].result = handlers[c].final

\* C5 amended: a handler with output v issues the update to completed with
\* result v; when that update is applied the task is completed with result v
\* (v is the flow's value for askQuestion, and that value with
\* recommendedLawyers and estimatedCostRange for classifyDocument); when it
\* is rejected the task is marked failed with the storage error's message or
\* stays in processing.  A completed task always stores its handler's output.
C5_CompletedWithResultAmended ==
    /\ [](/\ \A c \in 1..Len(calls) :
               HasOutput(c) =>
                  /\ handlers[c].flow = "ok"
                  /\ Val(handlers[c].final) = OutputFor(handlers[c].kind, Val(handlers[c].result))
                  /\ Cardinality(DocsOf(c)) = 1
                  /\ \A p \in DocsOf(c) :
                        /\ (handlers[c].pc = "done" /\ ~IsSet(handlers[c].err)) =>
                              /\ tasks[p].status = "completed"
                              /\ tasks[p].result = handlers[c].final
                        /\ IsSet(handlers[c].err) =>
                              /\ handlers[c].err \in {Some(m) : m \in StorageMsgs}
                              /\ tasks[p].status \in {"processing", "failed"}
          /\ \A p \in DOMAIN tasks :
               tasks[p].status = "completed" =>
                  /\ HasOutput(tasks[p].call)
                  /\ tasks[p].result = handlers[tasks[p].call].final)
    /\ \A c \in Calls : HasOutput(c) ~> Settled(c)

\* C5 witness: an askQuestion and a classifyDocument task are completed, the
\* second with recommended lawyers and a cost range in its result.
C5_Witness ==
    \E p, q \in DOMAIN tasks :
        /\ tasks[p].status = "completed" /\ tasks[p].type = "askQuestion"
        /\ tasks[q].status = "completed" /\ tasks[q].type = "classifyDocument"
        /\ Val(tasks[q].result).recommendedLawyers # {}
        /\ IsSet(Val(tasks[q].result).expenditureAnalysis.estimatedCostRange)

\* C6: a createTask call whose add() was rejected returns {error}, has no
\* task record and no handler invocation.
C6_AddFailure ==
    \A c \in 1..Len(calls) :
        calls[c].add = "failed" =>
            /\ Returned(c)
            /\ calls[c].ret \in {RetError("Failed to create the task. " \o m) : m \in StorageMsgs}
            /\ DocsOf(c) = {}
            /\ handlers[c] = IdleHandler

\* C6 witness: the add() of a call with a known type was rejected.
C6_Witness ==
    \E c \in 1..Len(calls) :
        /\ calls[c].add = "failed"
        /\ Val(calls[c].taskData).type \in KnownTypes

\* C7: a createTask call with an empty userId has returned {error} in the
\* step of the call: it never reaches the add(), has no record and no
\* handler, and no record is stored under the empty owner.
C7_EmptyOwner ==
    /\ \A c \in 1..Len(calls) :
          calls[c].userId = "" =>
              /\ Returned(c)
              /\ calls[c].ret = RetError("User ID and task data are required.")
              /\ calls[c].add = "none"
              /\ DocsOf(c) = {}
              /\ handlers[c] = IdleHandler
    /\ \A p \in DOMAIN tasks : p[1] # ""

\* C7 witness: a call with an empty userId and otherwise valid task data
\* was made while a record of another call exists.
C7_Witness ==
    \E c \in 1..Len(calls) :
        /\ calls[c].userId = ""
        /\ IsSet(calls[c].taskData)
        /\ Val(calls[c].taskData).type \in KnownTypes
        /\ IsSet(Val(calls[c].taskData).payload)
        /\ DOMAIN tasks # {}

\* Call c came with an owner and task data, but with an empty or unknown
\* type or without a payload.
BadTaskData(c) ==
    /\ calls[c].userId # ""
    /\ IsSet(calls[c].taskData)
    /\ \/ Val(calls[c].taskData).type \notin KnownTypes
       \/ ~IsSet(Val(calls[c].taskData).payload)

\* C8 as stated: a call with an empty or unknown type or a missing payload
\* returns an error and creates no record; no record is pending without a
\* handler invocation.
C8_ValidatesTypeAndPayload ==
    /\ \A c \in 1..Len(calls) :
          BadTaskData(c) => (Returned(c) => ReturnedError(c)) /\ DocsOf(c) = {}
    /\ \A p \in DOMAIN tasks :
          tasks[p].status = "pending" => Started(tasks[p].call)

\* C9: a call that returned {taskId} has exactly one record, at that id
\* under its userId, first written as pending; a call that returned {error}
\* has none; there are as many records as calls that returned {taskId}.
C9_OneRecordPerCall ==
    /\ \A c \in 1..Len(calls) :
          /\ ReturnedTaskId(c) =>
                /\ DocsOf(c) = {TaskRef(calls[c].userId, calls[c].ret.taskId)}
                /\ \A p \in DocsOf(c) : tasks[p].log[1] = "pending"
          /\ ReturnedError(c) => DocsOf(c) = {}
    /\ Cardinality(DOMAIN tasks) = Cardinality({c \in 1..Len(calls) : ReturnedTaskId(c)})

\* C9 witness: two calls of one owner returned {taskId}.
C9_Witness ==
    \E c, d \in 1..Len(calls) :
        /\ c # d
        /\ ReturnedTaskId(c) /\ ReturnedTaskId(d)
        /\ calls[c].userId = calls[d].userId

\* C10: every onUpdate call of an observer signed in as B carries a record
\* stored under B and created by a createTask call for B; every record is
\* stored under the userId of the call that created it and was last written
\* by a step running for that userId.
C10_OwnerIsolation ==
    /\ \A o \in Observers :
          \A i \in 1..Len(obs[o].cbs) :
              /\ obs[o].cbs[i].asUser = Val(obs[o].user)
              /\ calls[obs[o].cbs[i].task.call].userId = obs[o].cbs[i].asUser
              /\ obs[o].cbs[i].task.writer = obs[o].cbs[i].asUser
    /\ \A p \in DOMAIN tasks :
          /\ calls[tasks[p].call].userId = p[1]
          /\ tasks[p].writer = p[1]

\* C10 witness: u1 and u2 each have a record with id 1, in different
\* states; the observer signed in as u2 watches id 1 and has had a callback.
C10_Witness ==
    \E o \in Observers :
        /\ obs[o].user = Some("u2") /\ obs[o].taskId = Some(1)
        /\ Len(obs[o].cbs) > 0
        /\ <<"u1", 1>> \in DOMAIN tasks /\ <<"u2", 1>> \in DOMAIN tasks
        /\ tasks[<<"u1", 1>>].status # tasks[<<"u2", 1>>].status

\* ------------------------------------------------------------------ properties of useTask
\* The onUpdate call cb carried a task in a terminal status.
TerminalCb(cb) == cb.task.status \in Terminal

\* The instance o went through no effect run in the step: it has the user
\* and taskId it had, so its subscription is the one it had.
SameSubscription(o) == obs'[o].user = obs[o].user /\ obs'[o].taskId = obs[o].taskId

\* C11: an onUpdate call with a completed or failed task is the last call of
\* its subscription and the only one with a terminal status; with it the
\* listener is cancelled, and as long as the subscription stands no further
\* onUpdate call is made.
C11_StopsAtTerminal ==
    /\ [](\A o \in Observers :
            \A i \in 1..Len(obs[o].cbs) :
                TerminalCb(obs[o].cbs[i]) => i = Len(obs[o].cbs) /\ ~obs[o].active)
    /\ [][\A o \in Observers :
            (/\ obs[o].cbs # <<>>
             /\ TerminalCb(obs[o].cbs[Len(obs[o].cbs)])
             /\ SameSubscription(o)) => obs'[o].cbs = obs[o].cbs /\ ~obs'[o].active]_vars

\* C11 witness: a subscription saw pending, then a terminal status, and is
\* cancelled, while the other task of the same owner is still written.
C11_Witness ==
    \E o \in Observers :
        /\ Len(obs[o].cbs) >= 2
        /\ obs[o].cbs[1].task.status = "pending"
        /\ TerminalCb(obs[o].cbs[Len(obs[o].cbs)])
        /\ ~obs[o].active
        /\ \E p \in DOMAIN tasks : p # obs[o].ref /\ p[1] = obs[o].ref[1]

\* The place of a status in the order pending, processing, (completed | failed).
StatusRank(status) ==
    IF status = "pending" THEN 1 ELSE IF status = "processing" THEN 2 ELSE 3

\* C12: the statuses passed to onUpdate by one subscription are a
\* subsequence of pending, processing, (completed | failed): each call has a
\* status later in that order than the call before it, so processing never
\* follows a terminal status, pending never follows processing, and
\* completed and failed are never both seen.
C12_StatusSubsequence ==
    \A o \in Observers :
        \A i, j \in 1..Len(obs[o].cbs) :
            /\ obs[o].cbs[i].task.status \in {"pending", "processing", "completed", "failed"}
            /\ i < j => StatusRank(obs[o].cbs[i].task.status)
                            < StatusRank(obs[o].cbs[j].task.status)

\* C12 witness: one subscription saw pending, processing and failed, another
\* task of the same owner being completed.
C12_Witness ==
    \E o \in Observers :
        /\ Len(obs[o].cbs) = 3
        /\ obs[o].cbs[1].task.status = "pending"
        /\ obs[o].cbs[2].task.status = "processing"
        /\ obs[o].cbs[3].task.status = "failed"
        /\ \E p \in DOMAIN tasks : p[1] = obs[o].ref[1] /\ tasks[p].status = "completed"

\* The number of the stored revision an onUpdate call carried: the number of
\* writes the record had had.
Revision(cb) == Len(cb.task.log)

\* The record in its revision n, as far as its statuses tell.
IsPrefix(s, t) == Len(s) <= Len(t) /\ \A i \in 1..Len(s) : s[i] = t[i]

\* C13 as stated: onUpdate is called once for every stored revision from the
\* first delivered one on, none skipped: the calls of a subscription carry
\* consecutive revisions.
C13_EveryRevision ==
    \A o \in Observers :
        \A i \in 1..(Len(obs[o].cbs) - 1) :
            Revision(obs[o].cbs[i + 1]) = Revision(obs[o].cbs[i]) + 1

\* C13 amended: the calls of a subscription carry revisions of the watched
\* record in write order, none twice: each call carries the record as it was
\* stored in a revision later than the one of the call before, the last call
\* carries the revision the listener is at, and a revision is left out only
\* when a later one was stored before the listener delivered it.
C13_RevisionsInOrder ==
    /\ [](\A o \in Observers :
            /\ \A i \in 1..Len(obs[o].cbs) :
                  /\ obs[o].ref \in DOMAIN tasks
                  /\ obs[o].cbs[i].task.call = tasks[obs[o].ref].call
                  /\ IsPrefix(obs[o].cbs[i].task.log, tasks[obs[o].ref].log)
                  /\ i < Len(obs[o].cbs) =>
                        Revision(obs[o].cbs[i]) < Revision(obs[o].cbs[i + 1])
            /\ obs[o].cbs # <<>> => Revision(obs[o].cbs[Len(obs[o].cbs)]) = obs[o].seen)
    /\ [][\A o \in Observers :
            (SameSubscription(o) /\ obs'[o].cbs # obs[o].cbs) =>
                /\ obs[o].active
                /\ obs'[o].cbs = Append(obs[o].cbs, [asUser |-> Val(obs[o].user),
                                                     task |-> tasks[obs[o].ref]])
                /\ Len(tasks[obs[o].ref].log) > obs[o].seen]_vars

\* C13 witness: a subscription was handed revision 1 and then revision 3;
\* revision 2 was overwritten before the listener delivered it.
C13_Witness ==
    \E o \in Observers :
        /\ Len(obs[o].cbs) = 2
        /\ Revision(obs[o].cbs[1]) = 1
        /\ Revision(obs[o].cbs[2]) = 3

\* The instance o has a subscription: its last effect run registered a
\* listener, and no cleanup has run since.
Subscribed(o) == IsSet(obs[o].user) /\ IsSet(obs[o].taskId)

\* The subscription of o has had its callback with a terminal status.
GotTerminal(o) == obs[o].cbs # <<>> /\ TerminalCb(obs[o].cbs[Len(obs[o].cbs)])

\* The listener of o ended in its error callback.
ListenFailed(o) == ~obs[o].active /\ obs[o].error = Some("Failed to get task status.")

\* C14 as stated: an observer that stays subscribed to a task in a terminal
\* status gets the callback with that status; so a subscription to such a
\* task whose listener is gone has had it.
C14_TerminalDelivered ==
    \A o \in Observers :
        (/\ Subscribed(o)
         /\ obs[o].ref \in DOMAIN tasks
         /\ tasks[obs[o].ref].status \in Terminal
         /\ ~obs[o].active) => GotTerminal(o)

\* C14 amended: an observer subscribed to a task that is completed or failed
\* gets the callback with that status, or its listener ends in the error
\* callback (error 'Failed to get task status.') and delivers nothing more,
\* or it unsubscribes; a listener is never gone for another reason.
C14_TerminalOrListenError ==
    /\ [](\A o \in Observers :
            (Subscribed(o) /\ ~obs[o].active) => GotTerminal(o) \/ ListenFailed(o))
    /\ \A o \in Observers, u \in Owners, i \in TaskIds :
          (/\ obs[o].user = Some(u) /\ obs[o].taskId = Some(i)
           /\ <<u, i>> \in DOMAIN tasks
           /\ tasks[<<u, i>>].status \in Terminal)
              ~> \/ <<obs[o].user, obs[o].taskId>> # <<Some(u), Some(i)>>
                 \/ GotTerminal(o) /\ obs[o].cbs[Len(obs[o].cbs)].task = tasks[<<u, i>>]
                 \/ ListenFailed(o)

\* C14 witness: an observer subscribed before the terminal write has seen
\* processing and then the terminal status.
C14_Witness ==
    \E o \in Observers :
        /\ Subscribed(o)
        /\ Len(obs[o].cbs) >= 2
        /\ obs[o].cbs[Len(obs[o].cbs) - 1].task.status = "processing"
        /\ GotTerminal(o)
        /\ obs[o].error = Unset

C16_SilentAfterUnsubscribe ==
    /\ [](\A o \in Observers :
            /\ ~Subscribed(o) => ~obs[o].active /\ obs[o].ref = Unset /\ obs[o].cbs = <<>>
            /\ Subscribed(o) =>
                  /\ obs[o].ref = useTaskRef(Val(obs[o].user), Val(obs[o].taskId))
                  /\ \A i \in 1..Len(obs[o].cbs) :
                        obs[o].cbs[i].task.call = tasks[obs[o].ref].call)
    /\ [][\A o \in Observers :
            /\ ~SameSubscription(o) => obs'[o].cbs = <<>> /\ obs'[o].seen = 0
            /\ (SameSubscription(o) /\ ~Subscribed(o)) => obs'[o] = obs[o]]_vars

\* C16 witness: an observer that had subscribed to a task id before the
\* record existed (it was told 'Task not found.') has dropped the taskId;
\* every task id of its user has a record now, one of them completed, and
\* the observer has no listener and has had no onUpdate call.
C16_Witness ==
    \E o \in Observers :
        /\ IsSet(obs[o].user) /\ ~IsSet(obs[o].taskId)
        /\ obs[o].error = Some("Task not found.")
        /\ ~obs[o].active /\ obs[o].cbs = <<>>
        /\ \A i \in TaskIds : <<Val(obs[o].user), i>> \in DOMAIN tasks
        /\ \E i \in TaskIds : tasks[<<Val(obs[o].user), i>>].status = "completed"

TargetOf(c) == TaskRef(handlers[c].userId, handlers[c].taskId)

\* The handler invocation of call c took a step.
HandlerStepped(c) == c \in 1..Len(handlers) /\ handlers'[c] # handlers[c]

\* C18: a record that exists is written only in a step of the handler
\* invocation started by the call that created it: such a step is no step of
\* a createTask call and moves no other handler; every handler invocation
\* writes to the record of its own call, so no two write to one record; a
\* record is never removed or created anew.
C18_SingleWriter ==
    /\ [](\A c \in 1..Len(handlers) :
            Started(c) =>
                /\ TargetOf(c) \in DOMAIN tasks
                /\ tasks[TargetOf(c)].call = c
                /\ \A d \in 1..Len(handlers) : (Started(d) /\ d # c) => TargetOf(d) # TargetOf(c))
    /\ [][\A p \in DOMAIN tasks :
            /\ p \in DOMAIN tasks'
            /\ tasks'[p].call = tasks[p].call
            /\ tasks'[p] # tasks[p] =>
                  /\ calls' = calls
                  /\ obs' = obs
                  /\ Started(tasks[p].call)
                  /\ TargetOf(tasks[p].call) = p
                  /\ \A d \in 1..Len(handlers) : HandlerStepped(d) <=> d = tasks[p].call]_vars

\* C18 witness: two tasks of one owner have both been written by their
\* handlers, one up to completed and one up to failed.
C18_Witness ==
    \E c, d \in 1..Len(handlers) :
        /\ c # d
        /\ handlers[c].userId = handlers[d].userId
        /\ handlers[c].pc = "done" /\ handlers[d].pc = "done"
        /\ tasks[TargetOf(c)].status = "completed"
        /\ tasks[TargetOf(d)].status = "failed"

\* status, result and error of a record.
Outcome(doc) == [status |-> doc.status, result |-> doc.result, error |-> doc.error]

\* What the record of call c holds when its handler has ended, told from the
\* handler's own run alone: completed with its output; failed with the
\* message it caught; or, when the update to failed was rejected, the status
\* the record had before the catch.
OutcomeAlone(c) ==
    IF handlers[c].pc = "done" /\ ~IsSet(handlers[c].err)
    THEN [status |-> "completed",
          result |-> Some(OutputFor(handlers[c].kind, Val(handlers[c].result))),
          error |-> Unset]
    ELSE IF handlers[c].pc = "done"
    THEN [status |-> "failed", result |-> Unset, error |-> handlers[c].err]
    ELSE [status |-> IF handlers[c].flow = "none" THEN "pending" ELSE "processing",
          result |-> Unset, error |-> Unset]

\* C19: a step of the handler of one task, and a step of a createTask call,
\* leaves every record of another call as it is; and when a handler has
\* ended, status, result and error of its record are what its own run
\* (its flow's outcome and the storage's answers to its own updates) gives,
\* whatever the other tasks did.
C19_TasksIndependent ==
    /\ [](\A c \in 1..Len(handlers) :
            Settled(c) => Outcome(tasks[TargetOf(c)]) = OutcomeAlone(c))
    /\ [][\A c \in 1..Len(calls) :
            (HandlerStepped(c) \/ calls'[c] # calls[c]) =>
                \A p \in DOMAIN tasks :
                    tasks[p].call # c => p \in DOMAIN tasks' /\ tasks'[p] = tasks[p]]_vars
    /\ [][Len(calls') > Len(calls) => tasks' = tasks]_vars

\* C19 witness: the handlers of two tasks of one owner are running at the
\* same time, one about to write completed and one about to write failed,
\* and each record has been written by its own handler only.
C19_Witness ==
    \E c, d \in 1..Len(handlers) :
        /\ c # d
        /\ handlers[c].userId = handlers[d].userId
        /\ handlers[c].pc = "updCompleted" /\ handlers[d].pc = "updFailed"
        /\ tasks[TargetOf(c)].log = <<"pending", "processing">>
        /\ tasks[TargetOf(d)].log = <<"pending", "processing">>

\* The number of times status s was written to a record with log l.
TimesWritten(l, s) == Cardinality({i \in 1..Len(l) : l[i] = s})

\* The order in which a handler invocation goes through its awaits.
PcRank(pc) ==
    IF pc = "none" THEN 0
    ELSE IF pc = "updProcessing" THEN 1
    ELSE IF pc = "flow" THEN 2
    ELSE IF pc = "lawyersQuery" THEN 3
    ELSE IF pc = "historyAdd" THEN 4
    ELSE IF pc = "updCompleted" THEN 5
    ELSE IF pc = "updFailed" THEN 6
    ELSE 7

\* C20: the handler of a task is invoked at most once, and exactly once for
\* a createTask call that returned {taskId} for a known type: a record is
\* put in processing at most once and ends at most once, a handler
\* invocation only moves forward through its awaits and stays where it is
\* once it has ended, and a failed record is never written again.
C20_NoRetry ==
    /\ [](/\ \A p \in DOMAIN tasks :
               /\ TimesWritten(tasks[p].log, "pending") = 1
               /\ TimesWritten(tasks[p].log, "processing") <= 1
               /\ TimesWritten(tasks[p].log, "completed")
                     + TimesWritten(tasks[p].log, "failed") <= 1
               /\ tasks[p].status = tasks[p].log[Len(tasks[p].log)]
          /\ \A c \in 1..Len(calls) :
               /\ (ReturnedTaskId(c) /\ Val(calls[c].taskData).type \in KnownTypes)
                     => Started(c) /\ handlers[c].kind = Val(calls[c].taskData).type
               /\ Started(c) => ReturnedTaskId(c) /\ TargetOf(c) \in DocsOf(c))
    /\ [][/\ \A c \in 1..Len(handlers) :
               /\ PcRank(handlers'[c].pc) >= PcRank(handlers[c].pc)
               /\ Settled(c) => handlers'[c] = handlers[c]
          /\ \A p \in DOMAIN tasks :
               tasks[p].status = "failed" => p \in DOMAIN tasks' /\ tasks'[p] = tasks[p]]_vars

\* C20 witness: a task has failed, its handler has ended, and a later call
\* of the same owner for the same type and payload has its own record and
\* its own handler invocation.
C20_Witness ==
    \E c, d \in 1..Len(handlers) :
        /\ c < d
        /\ calls[c].userId = calls[d].userId
        /\ calls[c].taskData = calls[d].taskData
        /\ handlers[c].pc = "done"
        /\ tasks[TargetOf(c)].status = "failed"
        /\ Started(d)
        /\ TargetOf(d) # TargetOf(c)

\* ------------------------------------------------------------------ properties of the error paths
\* An error arose in the handler of call c: its catch block was entered.
ErrorArose(c) == c \in 1..Len(handlers) /\ IsSet(handlers[c].err)

\* C21 as stated: once the handler has ended after an error, the record is
\* failed and carries the error's message.
C21_ErrorsEndFailed ==
    \A c \in 1..Len(handlers) :
        (ErrorArose(c) /\ Settled(c)) =>
            /\ tasks[TargetOf(c)].status = "failed"
            /\ tasks[TargetOf(c)].error = handlers[c].err

\* C21 amended: an error of the flow, of the lawyers query or of the update
\* to processing or completed is caught, and the catch issues the update to
\* failed with the error's message; the record is failed with that message
\* when this update is applied, and keeps the status it had (pending or
\* processing) when this update is rejected, which nothing catches.  The
\* createTask call has returned {taskId} before, and what it returned does
\* not change.  The handler ends only by the update to completed or by the
\* outcome of the update to failed, and it does end after an error.
C21_ErrorsAmended ==
    /\ [](\A c \in 1..Len(handlers) :
            ErrorArose(c) =>
                /\ ReturnedTaskId(c)
                /\ handlers[c].pc \in {"updFailed", "done", "rejected"}
                /\ handlers[c].pc = "done" =>
                      /\ tasks[TargetOf(c)].status = "failed"
                      /\ tasks[TargetOf(c)].error = handlers[c].err
                      /\ tasks[TargetOf(c)].result = Unset
                /\ handlers[c].pc # "done" =>
                      /\ tasks[TargetOf(c)].status =
                            IF handlers[c].flow = "none" THEN "pending" ELSE "processing"
                      /\ tasks[TargetOf(c)].error = Unset)
    /\ [][\A c \in 1..Len(handlers) :
            /\ Returned(c) => calls'[c] = calls[c]
            /\ (handlers'[c].pc = "rejected" /\ handlers[c].pc # "rejected") =>
                  handlers[c].pc = "updFailed" /\ handlers'[c].err = handlers[c].err
            /\ ErrorArose(c) => handlers'[c].err = handlers[c].err]_vars
    /\ \A c \in Calls : ErrorArose(c) ~> Settled(c)

\* C21 witness: one task is failed with the message of a rejected storage
\* update, another is failed with the message of its flow.
C21_Witness ==
    \E c, d \in 1..Len(handlers) :
        /\ handlers[c].pc = "done" /\ handlers[d].pc = "done"
        /\ handlers[c].flow = "ok" /\ handlers[d].flow = "throw"
        /\ tasks[TargetOf(c)].status = "failed"
        /\ tasks[TargetOf(c)].error \in {Some(m) : m \in StorageMsgs}
        /\ tasks[TargetOf(d)].status = "failed"
        /\ tasks[TargetOf(d)].error \in {Some(m) : m \in FlowMsgs}

\* ------------------------------------------------------------------ properties of the calling interfaces
\* The failure notifications among the toasts ts.
IsFailureToast(t) == t.title = "Analysis Failed"
FailureToasts(ts) == SelectSeq(ts, IsFailureToast)

\* In the step the listener of hook o called onUpdate, and with which task.
Delivered(o) == Len(obs'[o].cbs) = Len(obs[o].cbs) + 1
DeliveredTask(o) == obs'[o].cbs[Len(obs'[o].cbs)].task

\* What C22 asks of the component state st (before) and st2 (after) of a
\* step in which the hook o it uses may have called onTaskUpdate.
NotifiesFailure(o, st, st2) ==
    IF Delivered(o) /\ DeliveredTask(o).status = "failed"
    THEN /\ st2.toasts = Append(st.toasts, [title |-> "Analysis Failed",
                                            call |-> DeliveredTask(o).call,
                                            description |-> DeliveredTask(o).error])
         /\ DeliveredTask(o).error = tasks[obs[o].ref].error
         /\ IsSet(DeliveredTask(o).error)
         /\ st2.currentTaskId = Unset
    ELSE FailureToasts(st2.toasts) = FailureToasts(st.toasts)

\* C22: when the listener of a component hands a failed task to
\* onTaskUpdate, the component raises one toast 'Analysis Failed' whose
\* description is the error stored in the task, and clears its
\* currentTaskId; in no other step is such a toast raised, so there is none
\* for a task observed as pending, processing or completed, and at most one
\* for a task.
C22_FailureNotification ==
    /\ [][/\ chat # IdleChat => NotifiesFailure(ChatHook, chat, chat')
          /\ page # IdlePage => NotifiesFailure(PageHook, page, page')]_vars
    /\ [](\A ts \in {chat.toasts, page.toasts} :
            \A i, j \in 1..Len(ts) :
                IsFailureToast(ts[i]) =>
                    /\ \E p \in DOMAIN tasks :
                          /\ tasks[p].call = ts[i].call
                          /\ tasks[p].status = "failed"
                          /\ tasks[p].error = ts[i].description
                    /\ (IsFailureToast(ts[j]) /\ ts[j].call = ts[i].call) => i = j)

\* C22 witness: a ChatInterface saw its task in processing and then failed,
\* raised the one toast with the stored message and cleared currentTaskId.
C22_Witness ==
    /\ Len(obs[ChatHook].cbs) >= 2
    /\ obs[ChatHook].cbs[Len(obs[ChatHook].cbs)].task.status = "failed"
    /\ Len(FailureToasts(chat.toasts)) = 1
    /\ FailureToasts(chat.toasts)[1].description = tasks[obs[ChatHook].ref].error
    /\ chat.currentTaskId = Unset

\* ------------------------------------------------------------------ properties of the history
\* The history documents written for the task of call c.
HistoryOf(c) == {d \in BagToSet(hist) : d.task = c}

\* The handler of call c is past its history write, and the write failed.
HistoryWriteFailed(c) ==
    /\ c \in 1..Len(handlers)
    /\ handlers[c].kind = "classifyDocument"
    /\ HasOutput(c)
    /\ handlers[c].pc \in {"updCompleted", "updFailed", "done", "rejected"}
    /\ HistoryOf(c) = {}

\* C23: whether the history write succeeds or throws, the handler goes on
\* to the update to completed with the full result and with no error caught;
\* so after a failed history write the task is completed with that result
\* once this update is applied, and an error it ends with is the error of
\* this update, not of the history write.
C23_HistoryFailureIgnored ==
    /\ [][\A c \in 1..Len(handlers) :
            (handlers[c].pc = "historyAdd" /\ handlers'[c] # handlers[c]) =>
                /\ handlers'[c] = [handlers[c] EXCEPT !.pc = "updCompleted"]
                /\ tasks' = tasks]_vars
    /\ [][\A c \in 1..Len(handlers) :
            (HistoryWriteFailed(c) /\ handlers[c].pc = "updCompleted"
                /\ handlers'[c] # handlers[c]) =>
                \/ /\ handlers'[c].pc = "done"
                   /\ tasks'[TargetOf(c)].status = "completed"
                   /\ tasks'[TargetOf(c)].result = handlers[c].final
                \/ /\ handlers'[c].pc = "updFailed"
                   /\ handlers'[c].err \in {Some(m) : m \in StorageMsgs}
                   /\ tasks' = tasks]_vars
    /\ [](\A c \in 1..Len(handlers) :
            (HistoryWriteFailed(c) /\ handlers[c].pc = "done" /\ ~ErrorArose(c)) =>
                /\ tasks[TargetOf(c)].status = "completed"
                /\ tasks[TargetOf(c)].result =
                      Some(OutputFor("classifyDocument", Val(handlers[c].result))))

\* C23 witness: a classifyDocument task is completed with recommended
\* lawyers in its result, and the owner's history has no document for it.
C23_Witness ==
    \E c \in 1..Len(handlers) :
        /\ HistoryWriteFailed(c)
        /\ handlers[c].pc = "done"
        /\ tasks[TargetOf(c)].status = "completed"
        /\ Val(tasks[TargetOf(c)].result).recommendedLawyers # {}

\* ------------------------------------------------------------------ properties of ChatInterface
\* The assistant messages that stem from createTask call c.
RepliesTo(c) ==
    {i \in 1..Len(chat.chatMessages) :
        chat.chatMessages[i].role = "assistant" /\ chat.chatMessages[i].call = c}

\* The question of call c is done with: createTask answered it with an
\* error, or its task was handed to onTaskUpdate in a terminal status.
Concluded(c) ==
    \/ c <= chat.received /\ calls[c].ret.tag = "error"
    \/ RepliesTo(c) # {}
    \/ \E w \in chat.speech : w.call = c

\* C24 as stated: of the createTask calls a ChatInterface has issued, at
\* most one is not done with.
C24_OneOutstanding ==
    \A c, d \in 1..chat.asked : (~Concluded(c) /\ ~Concluded(d)) => c = d

\* The task of call c is completed or failed.
TaskTerminal(c) == \E p \in DOMAIN tasks : tasks[p].call = c /\ tasks[p].status \in Terminal

\* Nothing is pending in the component: no createTask call is unanswered,
\* no task is watched, no onTaskUpdate awaits getSpeech.
chatQuiet ==
    /\ chatRendered
    /\ chat.received = chat.asked
    /\ chat.currentTaskId = Unset
    /\ chat.speech = {}

\* C25 as stated: a question whose task is terminal gets exactly one
\* assistant message; so it has exactly one when nothing is pending in the
\* component any more, and never more than one.
C25_OneReplyPerQuestion ==
    \A c \in 1..chat.asked :
        /\ Cardinality(RepliesTo(c)) <= 1
        /\ (chatQuiet /\ TaskTerminal(c)) => Cardinality(RepliesTo(c)) = 1

\* ------------------------------------------------------------------ properties of DocumentVerifierPage
\* The page shows an analysis result and names an uploaded file with it.
pageShowsResult ==
    /\ pageRendered
    /\ ~obs[PageHook].isLoading
    /\ IsSet(page.result)
    /\ IsSet(page.uploadedFile)

\* C26 as stated: a result shown together with an uploaded file is the
\* result of the task created for that file.
C26_ResultMatchesFile ==
    pageShowsResult => page.files[Val(page.result).call] = Val(page.uploadedFile)

\* ------------------------------------------------------------------ properties of the subscription of an instance
\* The listener of the instance o is registered on the record its current
\* user and taskId name.
ListensOnCurrent(o) ==
    Subscribed(o) /\ obs[o].ref = useTaskRef(Val(obs[o].user), Val(obs[o].taskId))

HandlerFinished(c) == handlers[c].pc \in {"done", "rejected"}

\* The number of history documents written for the task of call c.
HistoryWrites(c) ==
    LET docs == HistoryOf(c)
    IN IF docs = {} THEN 0 ELSE CopiesIn(CHOOSE d \in docs : TRUE, hist) + Cardinality(docs) - 1

\* C28: a classifyDocument task has at most one history document, written
\* only after its classification produced a result; and when the handler of
\* a task with a history document has finished, the task is completed.
C28_HistoryOnlyCompleted ==
    \A c \in 1..Len(handlers) :
        /\ HistoryWrites(c) <= 1
        /\ HistoryOf(c) # {} => handlers[c].kind = "classifyDocument" /\ HasOutput(c)
        /\ (HistoryOf(c) # {} /\ HandlerFinished(c)) =>
              tasks[TargetOf(c)].status = "completed"

\* ------------------------------------------------------------------ properties of the sign-up
\* The sign-up s has completed: onSubmit returned without error.
SignedUp(s) == signups[s].pc = "done"

\* C29: once an email sign-up with role r has completed, the profile of its
\* account has role r, whatever the order of the steps of
\* createUserInFirestore and of the updateUserInFirestore calls of the
\* listener; and a setDoc of updateUserInFirestore that found a profile left
\* it with the role it had.
C29_SignupRoleKept ==
    /\ \A s \in 1..Len(signups) :
          SignedUp(s) =>
              /\ Val(signups[s].uid) \in DOMAIN users
              /\ users[Val(signups[s].uid)].role = Some(signups[s].role)
    /\ \A l \in 1..Len(updates) :
          (updates[l].pc = "done" /\ IsSet(updates[l].before)) =>
              Val(updates[l].after).role = Val(updates[l].before).role

\* ------------------------------------------------------------------ properties of the admin actions
\* No admin call is in progress.
AdminQuiet == \A a \in 1..Len(admin) : ~Running(a)

\* The lawyers document under id names an account that exists and whose
\* profile has the role lawyer.
RecordLinked(id) ==
    LET uid == Val(lawyerRecords[id].uid)
    IN uid \in auth /\ uid \in DOMAIN users /\ users[uid].role = Some("lawyer")

\* The account the call a of addLawyer created has its profile and its
\* lawyers document.
AccountComplete(a) ==
    LET uid == Val(admin[a].uid)
    IN /\ uid \in DOMAIN users
       /\ \E id \in DOMAIN lawyerRecords : lawyerRecords[id].uid = Some(uid)

\* C30: when no call of addLawyer or deleteLawyer is in progress, every
\* lawyers document with a uid has its account and a profile with the role
\* lawyer, and every account addLawyer created that still exists has its
\* profile and its lawyers document; and a call that ran alone and returned
\* {error} left the three stores as they were when it started.
C30_LawyerStoresConsistent ==
    /\ AdminQuiet =>
          /\ \A id \in DOMAIN lawyerRecords :
                IsSet(lawyerRecords[id].uid) => RecordLinked(id)
          /\ \A a \in 1..Len(admin) :
                (admin[a].op = "addLawyer" /\ IsSet(admin[a].uid)
                    /\ Val(admin[a].uid) \in auth) => AccountComplete(a)
    /\ \A a \in 1..Len(admin) :
          (admin[a].ret.tag = "error" /\ admin[a].alone) =>
              admin[a].after = Some(admin[a].before)

====
